---- MODULE Spec2Model ----
(***************************************************************************)
(* docker-notify-ts: the update-detection cycle (checkForUpdates), the     *)
(* State Store (Cache), and the Notification Dispatcher (ActionRegistry    *)
(* with the mail and webhook handlers).                                    *)
(*                                                                         *)
(* A cycle is an async function: every await is a point where another      *)
(* cycle, started by the interval timer, may run.  Each action below is    *)
(* the code between two awaits.                                            *)
(***************************************************************************)
EXTENDS Integers, Sequences, FiniteSets, TLC

VARIABLES
    config,            \* the validated Config: read-only after start-up
    file,              \* ./config/cache.json: [exists, data]
    cycles,            \* one record per checkForUpdates invocation slot
    startOrder,        \* slots in the order their cycles were started
    phase,             \* main(): "init", "startup", "scheduled", "exited"
    exitCode,          \* process.exit status (0 while running)
    transporterCache,  \* mail.ts: SMTP instance names with a pooled transport
    transports,        \* createTransport and clearTransporterCache calls so far
    validation,        \* what validateAllActions(config) did and returned
    api,               \* one DockerAPI call followed request by request
    configFile,        \* ./config/config.jsonc and config.json as loadConfig finds them
    parsed,            \* parseNotifyServices: an image string and its ParsedImage
    webhook            \* replaceMessagePlaceholders: httpBody, message and result

vars == <<config, file, cycles, startOrder, phase, exitCode, transporterCache,
          transports, validation, api, configFile, parsed, webhook>>

-----------------------------------------------------------------------------
(* Bounds of the model *)

\* registry timestamps range over MaxInstant distinct instants (plus garbage)
MaxInstant == 2
\* checkForUpdates invocations that may be in flight at the same time
MaxInFlight == 2
\* pages the registry may need for the tags of one repository
MaxPages == 3
\* clearTransporterCache calls in one run
MaxClears == 1
\* pieces (text or placeholder) of one string of a webhook body
MaxLen == 2
\* elements of an array body, keys of an object body
MaxItems == 2
\* characters of an image string of the configuration
MaxChars == 5

Slots == 1..MaxInFlight

-----------------------------------------------------------------------------
(* Timestamps: last_updated strings of the registry, and Date.parse *)

IsoString(d) == "2024-01-0" \o ToString(d) \o "T00:00:00Z"

Garbage == "not-a-date"

Timestamps == {IsoString(d) : d \in 1..MaxInstant} \cup {Garbage}

\* Date.parse: the instant of an ISO string, NaN for anything else
DateParse(s) ==
    IF \E d \in 1..MaxInstant : s = IsoString(d)
    THEN [nan |-> FALSE, ms |-> CHOOSE d \in 1..MaxInstant : s = IsoString(d)]
    ELSE [nan |-> TRUE, ms |-> 0]

\* the < of two JavaScript numbers: false as soon as one side is NaN
JsLessOrEqual(a, b) == ~a.nan /\ ~b.nan /\ a.ms <= b.ms

JsLess(a, b) == ~a.nan /\ ~b.nan /\ a.ms < b.ms

-----------------------------------------------------------------------------
(* Images and identity keys *)

Image(user, name, tag) == [user |-> user, name |-> name, tag |-> tag]

\* tag "" stands for an absent tag (both are falsy in `if (image.tag)`)
getCacheKey(image) ==
    image.user \o "/" \o image.name
        \o (IF image.tag # "" THEN ":" \o image.tag ELSE "")

Nginx == Image("library", "nginx", "")

App == Image("acme", "app", "latest")

Gone == Image("old", "gone", "")

MailHook(instance) == [type |-> "mailHook", instance |-> instance]

WebHook(instance) == [type |-> "webHook", instance |-> instance]

Job(image, actions) == [image |-> image, actions |-> actions]

\* the handler kinds the ActionRegistry constructor registers
Handlers == {"mailHook", "webHook"}

-----------------------------------------------------------------------------
(* The cache file: CacheData, JSON.stringify, JSON.parse, writeFile *)

CacheEntry(image, lastUpdated) ==
    [user |-> image.user, name |-> image.name, tag |-> image.tag,
     lastUpdated |-> lastUpdated]

NoEntry == [user |-> "", name |-> "", tag |-> "", lastUpdated |-> ""]

\* an object is a sequence of members in insertion order
Member(key, entry) == [key |-> key, entry |-> entry]

Keys(obj) == {obj[i].key : i \in 1..Len(obj)}

HasKey(obj, key) == key \in Keys(obj)

\* obj[key]: the last member written under the key
Lookup(obj, key) ==
    obj[CHOOSE i \in 1..Len(obj) :
            /\ obj[i].key = key
            /\ \A j \in (i + 1)..Len(obj) : obj[j].key # key].entry

\* obj[key] = entry: replaces in place, or appends
Assign(obj, key, entry) ==
    IF HasKey(obj, key)
    THEN [i \in 1..Len(obj) |->
            IF obj[i].key = key THEN Member(key, entry) ELSE obj[i]]
    ELSE Append(obj, Member(key, entry))

\* the text of the file is a sequence of tokens
Token(t, key, entry) == [t |-> t, key |-> key, entry |-> entry]

LBrace == Token("{", "", NoEntry)

RBrace == Token("}", "", NoEntry)

\* JSON.stringify(cache, null, 2)
JsonStringify(obj) ==
    <<LBrace>> \o [i \in 1..Len(obj) |-> Token("kv", obj[i].key, obj[i].entry)]
        \o <<RBrace>>

\* whether JSON.parse accepts the text
JsonValid(data) ==
    /\ Len(data) >= 2
    /\ data[1] = LBrace
    /\ data[Len(data)] = RBrace
    /\ \A i \in 2..(Len(data) - 1) : data[i].t = "kv"

\* JSON.parse of an accepted text
JsonParse(data) ==
    [i \in 1..(Len(data) - 2) |-> Member(data[i + 1].key, data[i + 1].entry)]

\* fs open that creates the file but keeps what an existing one holds
FsOpenKeep(f) == [exists |-> TRUE, data |-> f.data]

\* fs open with flag 'w': creates the file, or truncates it
FsOpenTruncate(f) == [exists |-> TRUE, data |-> <<>>]

\* fs write of a whole buffer at offset 0 of an open file: the bytes that
\* another writer put beyond the end of the buffer stay
FsWrite(f, text) ==
    [exists |-> TRUE,
     data |-> text \o SubSeq(f.data, Len(text) + 1, Len(f.data))]

-----------------------------------------------------------------------------
(* Configuration *)

\* "" stands for a credential that is not configured; smtpServer and
\* webHooks are the instance names that have an entry
Config(dockerHubUsername, dockerHubPassword, notifyServices, smtpServer, webHooks) ==
    [dockerHubUsername |-> dockerHubUsername,
     dockerHubPassword |-> dockerHubPassword,
     notifyServices |-> notifyServices,
     smtpServer |-> smtpServer, webHooks |-> webHooks]

\* a Config in which the optional maps named in absent are not defined
Without(cfg, absent) == [f \in DOMAIN cfg \ absent |-> cfg[f]]

\* the names every object inherits from Object.prototype (two of them)
ObjectPrototype == {"constructor", "toString"}

\* config.smtpServer?.[instance] and config.webHooks?.[instance]: undefined
\* when the map is absent; else the entry of the map under the name, or the
\* member of Object.prototype of that name, or undefined
Property(cfg, map, instance) ==
    IF map \notin DOMAIN cfg THEN "undefined"
    ELSE IF instance \in cfg[map] THEN "own"
    ELSE IF instance \in ObjectPrototype THEN "inherited"
    ELSE "undefined"

\* the instance names with an entry in an optional map of the Config
OwnKeys(cfg, map) == IF map \in DOMAIN cfg THEN cfg[map] ELSE {}

Usernames == {"", "user"}

Passwords == {"", "secret"}

\* index.ts line 151 with || for &&
HasAnyCredential(cfg) == cfg.dockerHubUsername # "" \/ cfg.dockerHubPassword # ""

\* index.ts line 151: config.dockerHubUsername && config.dockerHubPassword
HasCredentials(cfg) == cfg.dockerHubUsername # "" /\ cfg.dockerHubPassword # ""

\* two tracked images, one without and one with a tag
FullServices ==
    <<Job(Nginx, <<WebHook("hook"), MailHook("smtp")>>),
      Job(App, <<MailHook("smtp")>>)>>

\* one tracked image with one action
SmallServices == <<Job(Nginx, <<WebHook("hook")>>)>>

NumServices == Len(config.notifyServices)

ServiceKey(i) == getCacheKey(config.notifyServices[i].image)

-----------------------------------------------------------------------------
(* checkRepository and the bookkeeping of checkForUpdates *)

\* index.ts line 132 with <= for <
UpdatedOnEqual(cacheEntry, lastUpdated) ==
    IF cacheEntry.defined
    THEN JsLessOrEqual(DateParse(cacheEntry.entry.lastUpdated), DateParse(lastUpdated))
    ELSE FALSE

\* index.ts line 132 with a first-seen image counted as updated
UpdatedOnFirstSeen(cacheEntry, lastUpdated) ==
    IF cacheEntry.defined
    THEN JsLess(DateParse(cacheEntry.entry.lastUpdated), DateParse(lastUpdated))
    ELSE TRUE

\* index.ts line 132: cacheEntry ? Date.parse(..) < Date.parse(..) : false
Updated(cacheEntry, lastUpdated) ==
    IF cacheEntry.defined
    THEN JsLess(DateParse(cacheEntry.entry.lastUpdated), DateParse(lastUpdated))
    ELSE FALSE

\* currentCache[key]: an entry, or undefined
Get(obj, key) ==
    IF HasKey(obj, key)
    THEN [defined |-> TRUE, entry |-> Lookup(obj, key)]
    ELSE [defined |-> FALSE, entry |-> NoEntry]

-----------------------------------------------------------------------------
(* What the registry can answer to the requests of one checkRepository *)

Tag(name, last_updated) == [name |-> name, last_updated |-> last_updated]

Response(kind, tags, found, last_updated) ==
    [kind |-> kind, tags |-> tags, found |-> found, last_updated |-> last_updated]

\* a request failed: got rejects (transport error, HTTP error status)
Rejected == Response("throw", <<>>, FALSE, "")

\* getTags: the complete tag list of the repository
TagLists(tag) ==
    {<<>>, <<Tag("other", IsoString(1))>>}
        \cup {<<Tag(tag, t)>> : t \in Timestamps}
        \cup {<<Tag("other", IsoString(1)), Tag(tag, t)>> : t \in Timestamps}

\* getRepository: a body, which may be falsy (JSON null)
Responses(image) ==
    {Rejected} \cup
    (IF image.tag # ""
     THEN {Response("tags", l, TRUE, "") : l \in TagLists(image.tag)}
     ELSE {Response("repo", <<>>, FALSE, "")}
            \cup {Response("repo", <<>>, TRUE, t) : t \in Timestamps})

\* tags.find((t) => t.name === image.tag): index of the first match, or 0
Find(tags, name) ==
    IF \E i \in 1..Len(tags) : tags[i].name = name
    THEN CHOOSE i \in 1..Len(tags) :
            /\ tags[i].name = name
            /\ \A j \in 1..(i - 1) : tags[j].name # name
    ELSE 0

\* a RepositoryCheckResult or null, kept with the answer it was computed
\* from and with what checkRepository logged
Result(status, lastUpdated, updated, log, response) ==
    [status |-> status, lastUpdated |-> lastUpdated, updated |-> updated,
     log |-> log, response |-> response]

\* a checkRepository that has not settled
Pending == Result("pending", "", FALSE, "", Rejected)

Null(log, response) == Result("null", "", FALSE, log, response)

\* a result that carries the later of the stored and the fetched timestamp
OkLatest(cacheEntry, lastUpdated, response) ==
    Result("ok",
           IF cacheEntry.defined
                /\ JsLess(DateParse(lastUpdated), DateParse(cacheEntry.entry.lastUpdated))
           THEN cacheEntry.entry.lastUpdated
           ELSE lastUpdated,
           Updated(cacheEntry, lastUpdated), "", response)

\* a result that keeps the stored timestamp of an image found updated
OkStored(cacheEntry, lastUpdated, response) ==
    Result("ok",
           IF Updated(cacheEntry, lastUpdated) THEN cacheEntry.entry.lastUpdated
           ELSE lastUpdated,
           Updated(cacheEntry, lastUpdated), "", response)

Ok(cacheEntry, lastUpdated, response) ==
    Result("ok", lastUpdated, Updated(cacheEntry, lastUpdated), "", response)

\* checkRepository without the early return of lines 115-118: a missing tag
\* is read as undefined.last_updated, the empty string
checkRepositoryNoTagCheck(job, cacheEntry, response) ==
    IF response.kind = "throw"
    THEN Null("Failed to check repository", response)
    ELSE IF job.image.tag # ""
    THEN Ok(cacheEntry,
            IF Find(response.tags, job.image.tag) = 0 THEN ""
            ELSE response.tags[Find(response.tags, job.image.tag)].last_updated,
            response)
    ELSE IF ~response.found THEN Null("Repository not found", response)
    ELSE Ok(cacheEntry, response.last_updated, response)

\* checkRepository, lines 101-146, on the registry's answer
checkRepository(job, cacheEntry, response) ==
    IF response.kind = "throw"
    THEN Null("Failed to check repository", response)
    ELSE IF job.image.tag # ""
    THEN IF Find(response.tags, job.image.tag) = 0
         THEN Null("Tag not found", response)
         ELSE Ok(cacheEntry,
                 response.tags[Find(response.tags, job.image.tag)].last_updated,
                 response)
    ELSE IF ~response.found THEN Null("Repository not found", response)
    ELSE Ok(cacheEntry, response.last_updated, response)

\* a checkRepository whose error rejects its promise: Promise.all then
\* rejects and the cycle is over
SettleRejecting(rec, i, result) ==
    IF result.status = "null"
    THEN [rec EXCEPT !.results[i] = result, !.pc = "failed"]
    ELSE [rec EXCEPT !.results[i] = result]

\* the promise of checkRepository resolves with its result: the try/catch
\* of lines 108-145 leaves nothing to reject it
Settle(rec, i, result) == [rec EXCEPT !.results[i] = result]

\* the loop of lines 179-200 over results[i..], newCache part
RECURSIVE BuildCache(_, _, _, _)
BuildCache(services, results, i, acc) ==
    IF i > Len(results) THEN acc
    ELSE BuildCache(services, results, i + 1,
            IF results[i].status = "ok"
            THEN Assign(acc, getCacheKey(services[i].image),
                        CacheEntry(services[i].image, results[i].lastUpdated))
            ELSE acc)

\* the loop of lines 179-200, updatedRepos part: indices of the jobs
RECURSIVE BuildUpdated(_, _)
BuildUpdated(results, i) ==
    IF i > Len(results) THEN <<>>
    ELSE (IF results[i].status = "ok" /\ results[i].updated
          THEN <<i>> ELSE <<>>) \o BuildUpdated(results, i + 1)

\* newCache of lines 173-187 started from the loaded map instead of {}
NewCacheMerged(services, rec) ==
    BuildCache(services, rec.results, 1, rec.currentCache)

\* newCache that keeps the loaded entry of an image whose check failed
NewCacheKeepFailed(services, rec) ==
    BuildCache(services, rec.results, 1,
        SelectSeq(rec.currentCache,
            LAMBDA m : \E i \in 1..Len(rec.results) :
                /\ rec.results[i].status = "null"
                /\ getCacheKey(services[i].image) = m.key))

\* newCache as line 202 writes it
NewCache(services, rec) == BuildCache(services, rec.results, 1, <<>>)

-----------------------------------------------------------------------------
(* Cycles *)

\* the locals of one checkForUpdates, and what the invocation did so far:
\* login is the state of its getToken request, tokens the token each
\* checkRepository was called with, load the way getCache came to its
\* result, saved whether its writeCache has completed, error what rejected
\* it, reads and writes its readFile and writeFile calls on the cache file,
\* running the executes it has called that have not settled
IdleCycle ==
    [pc |-> "idle", origin |-> "timer", token |-> "", currentCache |-> <<>>,
     results |-> <<>>, newCache |-> <<>>, updatedRepos |-> <<>>,
     ri |-> 1, ai |-> 1, calls |-> <<>>,
     login |-> "none", tokens |-> <<>>, load |-> "", saved |-> FALSE,
     error |-> "", reads |-> 0, writes |-> 0, running |-> 0]

InFlight(c) == cycles[c].pc \notin {"idle", "done", "failed"}

\* a rejected checkForUpdates that ends the process whoever called it
ThrowsExiting(c, rec) ==
    /\ cycles' = [cycles EXCEPT ![c] = [rec EXCEPT !.pc = "failed"]]
    /\ phase' = "exited"
    /\ exitCode' = 1

\* a rejected checkForUpdates that is logged whoever called it
ThrowsLogged(c, rec) ==
    /\ cycles' = [cycles EXCEPT ![c] = [rec EXCEPT !.pc = "failed"]]
    /\ UNCHANGED <<phase, exitCode>>

\* a rejected checkForUpdates: main() exits with 1 on the start-up cycle
\* (lines 233, 244-247); the timer callback logs and goes on (236-238)
Throws(c, rec) ==
    /\ cycles' = [cycles EXCEPT ![c] = [rec EXCEPT !.pc = "failed"]]
    /\ IF cycles[c].origin = "main"
       THEN phase' = "exited" /\ exitCode' = 1
       ELSE UNCHANGED <<phase, exitCode>>

\* lines 149-157 up to the await of getToken, or line 161 without credentials
StartCycle(c, origin) ==
    /\ cycles' = [cycles EXCEPT ![c] =
            [IdleCycle EXCEPT
                !.pc = IF HasCredentials(config) THEN "auth" ELSE "load",
                !.login = IF HasCredentials(config) THEN "pending" ELSE "none",
                !.origin = origin]]
    /\ startOrder' = Append(SelectSeq(startOrder, LAMBDA s : s # c), c)

\* main(): await checkForUpdates(config, services)
MainStart ==
    /\ phase = "init"
    /\ validation.done /\ validation.result
    /\ phase' = "startup"
    /\ StartCycle(1, "main")
    /\ UNCHANGED <<configFile, parsed, webhook, config, validation, api, transports, file, exitCode, transporterCache>>

\* main() that does not await the start-up cycle before setInterval
MainScheduleAtOnce ==
    /\ phase = "startup"
    /\ phase' = "scheduled"
    /\ UNCHANGED <<configFile, parsed, webhook, config, validation, api, transports, file, cycles, startOrder, exitCode, transporterCache>>

\* main(): setInterval(...) once the start-up cycle has returned
MainSchedule ==
    /\ phase = "startup"
    /\ cycles[1].pc = "done"
    /\ phase' = "scheduled"
    /\ UNCHANGED <<configFile, parsed, webhook, config, validation, api, transports, file, cycles, startOrder, exitCode, transporterCache>>

FreeSlots == {c \in Slots : ~InFlight(c)}

LowestFree == CHOOSE c \in FreeSlots : \A d \in FreeSlots : c <= d

\* the interval callback, whatever the earlier cycles are doing
Tick ==
    /\ phase = "scheduled"
    /\ FreeSlots # {}
    /\ StartCycle(LowestFree, "timer")
    /\ UNCHANGED <<configFile, parsed, webhook, config, validation, api, transports, file, phase, exitCode, transporterCache>>

\* the interval callback when every earlier cycle has returned
TickIdle ==
    /\ \A c \in Slots : ~InFlight(c)
    /\ Tick

\* lines 151-157 without the try/catch: a rejected getToken rejects the cycle
GetTokenFatal(c) ==
    /\ cycles[c].pc = "auth"
    /\ \/ /\ cycles' = [cycles EXCEPT ![c].pc = "load", ![c].login = "ok",
                                       ![c].token = "jwt"]
          /\ UNCHANGED <<phase, exitCode>>
       \/ Throws(c, [cycles[c] EXCEPT !.login = "failed", !.error = "getToken"])
    /\ UNCHANGED <<configFile, parsed, webhook, config, validation, api, transports, file, startOrder, transporterCache>>

\* dockerAPI.getToken settles: lines 151-157
GetToken(c) ==
    /\ cycles[c].pc = "auth"
    /\ \E ok \in BOOLEAN :
        cycles' = [cycles EXCEPT ![c].pc = "load",
                                 ![c].login = IF ok THEN "ok" ELSE "failed",
                                 ![c].token = IF ok THEN "jwt" ELSE ""]
    /\ UNCHANGED <<configFile, parsed, webhook, config, validation, api, transports, file, startOrder, phase, exitCode, transporterCache>>

\* lines 164-168: every checkRepository is called, none has settled
StartChecks(rec, currentCache) ==
    [rec EXCEPT !.pc = "fetch", !.currentCache = currentCache,
                !.tokens = [i \in 1..NumServices |-> rec.token],
                !.results = [i \in 1..NumServices |-> Pending]]

\* cache.getCache without the catch of lines 385-393 for content that is
\* no JSON: the SyntaxError of JSON.parse rejects the caller
GetCacheStrict(c) ==
    /\ cycles[c].pc = "load"
    /\ \/ /\ ~file.exists
          /\ cycles' = [cycles EXCEPT ![c].pc = "create_open", ![c].reads = @ + 1]
          /\ UNCHANGED <<phase, exitCode>>
       \/ /\ file.exists
          /\ JsonValid(file.data)
          /\ cycles' = [cycles EXCEPT ![c] =
                StartChecks([@ EXCEPT !.load = "parsed", !.reads = @ + 1],
                            JsonParse(file.data))]
          /\ UNCHANGED <<phase, exitCode>>
       \/ /\ file.exists
          /\ ~JsonValid(file.data)
          /\ Throws(c, [cycles[c] EXCEPT !.load = "corrupt", !.error = "parse",
                                         !.reads = @ + 1])
    /\ UNCHANGED <<configFile, parsed, webhook, config, validation, api, transports, file, startOrder, transporterCache>>

\* cache.getCache: readFile settles (lines 381-393)
GetCache(c) ==
    /\ cycles[c].pc = "load"
    /\ \/ /\ ~file.exists
          /\ cycles' = [cycles EXCEPT ![c].pc = "create_open", ![c].reads = @ + 1]
       \/ /\ file.exists
          /\ \E readable \in BOOLEAN :
                cycles' = [cycles EXCEPT ![c] = StartChecks(
                    [@ EXCEPT !.reads = @ + 1,
                              !.load = IF ~readable THEN "unreadable"
                                       ELSE IF JsonValid(file.data) THEN "parsed"
                                       ELSE "corrupt"],
                    IF readable /\ JsonValid(file.data)
                    THEN JsonParse(file.data) ELSE <<>>)]
    /\ UNCHANGED <<configFile, parsed, webhook, config, validation, api, transports, file, startOrder, phase, exitCode, transporterCache>>

Writing(c) ==
    cycles[c].pc \in {"create_open", "create_write", "persist_open", "persist_write"}

\* checkForUpdates that does not await cache.writeCache(newCache)
WriteFileOpenDetached(c) ==
    /\ cycles[c].pc \in {"create_open", "persist_open"}
    /\ file' = FsOpenTruncate(file)
    /\ cycles' = [cycles EXCEPT
            ![c].writes = @ + 1,
            ![c].pc = IF @ = "create_open" THEN "create_write"
                      ELSE IF cycles[c].updatedRepos # <<>> THEN "notify" ELSE "done"]
    /\ UNCHANGED <<configFile, parsed, webhook, config, validation, api, transports, startOrder, phase, exitCode, transporterCache>>

\* writeFile, first half: the file is opened for writing
WriteFileOpen(c) ==
    /\ cycles[c].pc \in {"create_open", "persist_open"}
    /\ file' = FsOpenTruncate(file)
    /\ cycles' = [cycles EXCEPT
            ![c].writes = @ + 1,
            ![c].pc = IF @ = "create_open" THEN "create_write" ELSE "persist_write"]
    /\ UNCHANGED <<configFile, parsed, webhook, config, validation, api, transports, startOrder, phase, exitCode, transporterCache>>

\* writeFile, second half: the text is written and the call returns.
\* getCache then returns {} (line 389); checkForUpdates goes on to the
\* notifications (lines 204-217)
WriteFileData(c) ==
    /\ cycles[c].pc \in {"create_write", "persist_write"}
    /\ IF cycles[c].pc = "create_write"
       THEN /\ file' = FsWrite(file, JsonStringify(<<>>))
            /\ cycles' = [cycles EXCEPT ![c] =
                    StartChecks([@ EXCEPT !.load = "created"], <<>>)]
       ELSE /\ file' = FsWrite(file, JsonStringify(cycles[c].newCache))
            /\ cycles' = [cycles EXCEPT
                    ![c].saved = TRUE,
                    ![c].pc = IF cycles[c].updatedRepos # <<>> THEN "notify" ELSE "done"]
    /\ UNCHANGED <<configFile, parsed, webhook, config, validation, api, transports, startOrder, phase, exitCode, transporterCache>>

\* a rejected writeCache that is logged, the cycle going on to its dispatch
WriteFileFailCaught(c) ==
    /\ Writing(c)
    /\ IF cycles[c].pc \in {"persist_open", "persist_write"}
       THEN /\ cycles' = [cycles EXCEPT
                    ![c].error = "writeFile",
                    ![c].pc = IF cycles[c].updatedRepos # <<>> THEN "notify" ELSE "done"]
            /\ UNCHANGED <<phase, exitCode>>
       ELSE Throws(c, [cycles[c] EXCEPT !.error = "writeFile"])
    /\ UNCHANGED <<configFile, parsed, webhook, config, validation, api, transports, file, startOrder, transporterCache>>

\* writeFile rejects (permissions, disk full): nothing in getCache or
\* checkForUpdates catches it
WriteFileFail(c) ==
    /\ Writing(c)
    /\ Throws(c, [cycles[c] EXCEPT !.error = "writeFile"])
    /\ UNCHANGED <<configFile, parsed, webhook, config, validation, api, transports, file, startOrder, transporterCache>>

\* one checkRepository settles: lines 101-146.  Its cacheEntry is the
\* argument it was called with at line 167
CheckRepository(c, i) ==
    /\ cycles[c].pc = "fetch"
    /\ cycles[c].results[i] = Pending
    /\ \E response \in Responses(config.notifyServices[i].image) :
        cycles' = [cycles EXCEPT ![c] = Settle(@, i,
            checkRepository(config.notifyServices[i],
                            Get(cycles[c].currentCache, ServiceKey(i)),
                            response))]
    /\ UNCHANGED <<configFile, parsed, webhook, config, validation, api, transports, file, startOrder, phase, exitCode, transporterCache>>

\* checkForUpdates that writes the state only when an update was detected
CollectSkipWrite(c) ==
    /\ cycles[c].pc = "fetch"
    /\ \A i \in 1..NumServices : cycles[c].results[i] # Pending
    /\ cycles' = [cycles EXCEPT
            ![c].pc = IF BuildUpdated(cycles[c].results, 1) # <<>>
                      THEN "persist_open" ELSE "done",
            ![c].newCache = NewCache(config.notifyServices, cycles[c]),
            ![c].updatedRepos = BuildUpdated(cycles[c].results, 1)]
    /\ UNCHANGED <<configFile, parsed, webhook, config, validation, api, transports, file, startOrder, phase, exitCode, transporterCache>>

\* Promise.all has every result: lines 170-202 up to the writeFile call
Collect(c) ==
    /\ cycles[c].pc = "fetch"
    /\ \A i \in 1..NumServices : cycles[c].results[i] # Pending
    /\ cycles' = [cycles EXCEPT
            ![c].pc = "persist_open",
            ![c].newCache = NewCache(config.notifyServices, cycles[c]),
            ![c].updatedRepos = BuildUpdated(cycles[c].results, 1)]
    /\ UNCHANGED <<configFile, parsed, webhook, config, validation, api, transports, file, startOrder, phase, exitCode, transporterCache>>

-----------------------------------------------------------------------------
(* The Notification Dispatcher: executeAction and the two handlers *)

\* what the outside world does to the calls of one execute
Env(create, verify, send, request) ==
    [create |-> create, verify |-> verify, send |-> send, request |-> request]

Envs == {Env(c, v, s, r) : c \in BOOLEAN, v \in BOOLEAN, s \in BOOLEAN, r \in BOOLEAN}

\* one executeAction: the handler invoked ("" for none), its calls that
\* reach outside the process in order (createTransport, and the network
\* operations verify, sendMail and the request of got), the call that
\* failed ("" for none), what it logged, and whether it threw
Run(handler, io, failed, log, threw) ==
    [handler |-> handler, io |-> io, failed |-> failed, log |-> log,
     threw |-> threw]

\* mailAction.execute whose send does not depend on the verification
mailExecuteUnverified(action, cfg, cached, env) ==
    IF Property(cfg, "smtpServer", action.instance) = "undefined"
    THEN Run("mailHook", <<>>, "", "SMTP server configuration not found", FALSE)
    ELSE LET create == IF action.instance \in cached THEN <<>> ELSE <<"createTransport">>
         IN  IF action.instance \notin cached /\ ~env.create
             THEN Run("mailHook", create, "createTransport", "", TRUE)
             ELSE IF ~env.send
             THEN Run("mailHook", create \o <<"verify", "sendMail">>,
                      IF env.verify THEN "sendMail" ELSE "verify",
                      "Failed to send notification mail", FALSE)
             ELSE Run("mailHook", create \o <<"verify", "sendMail">>,
                      IF env.verify THEN "" ELSE "verify",
                      "Notification mail sent", FALSE)

\* mailAction.execute, mail.ts lines 37-66
mailExecute(action, cfg, cached, env) ==
    IF Property(cfg, "smtpServer", action.instance) = "undefined"
    THEN Run("mailHook", <<>>, "", "SMTP server configuration not found", FALSE)
    ELSE LET create == IF action.instance \in cached THEN <<>> ELSE <<"createTransport">>
         IN  IF action.instance \notin cached /\ ~env.create
             THEN Run("mailHook", create, "createTransport", "", TRUE)
             ELSE IF ~env.verify
             THEN Run("mailHook", create \o <<"verify">>, "verify",
                      "Failed to send notification mail", FALSE)
             ELSE IF ~env.send
             THEN Run("mailHook", create \o <<"verify", "sendMail">>, "sendMail",
                      "Failed to send notification mail", FALSE)
             ELSE Run("mailHook", create \o <<"verify", "sendMail">>, "",
                      "Notification mail sent", FALSE)

\* webhookAction.execute, webhook.ts lines 37-77.  A webhookConfig that is
\* a member of Object.prototype has no reqUrl: got rejects without a request
webhookExecute(action, cfg, env) ==
    IF Property(cfg, "webHooks", action.instance) = "undefined"
    THEN Run("webHook", <<>>, "", "Webhook configuration not found", FALSE)
    ELSE IF Property(cfg, "webHooks", action.instance) = "inherited"
    THEN Run("webHook", <<>>, "got", "Webhook execution failed", FALSE)
    ELSE IF ~env.request
    THEN Run("webHook", <<"got">>, "got", "Webhook execution failed", FALSE)
    ELSE Run("webHook", <<"got">>, "", "Webhook executed successfully", FALSE)

\* executeAction that lets a missing handler throw
executeActionStrict(action, cfg, cached, env) ==
    IF action.type \notin Handlers
    THEN Run("", <<>>, "", "", TRUE)
    ELSE IF action.type = "mailHook"
    THEN mailExecute(action, cfg, cached, env)
    ELSE webhookExecute(action, cfg, env)

\* ActionRegistry.executeAction, actions/index.ts lines 27-36
executeAction(action, cfg, cached, env) ==
    IF action.type \notin Handlers
    THEN Run("", <<>>, "", "Unknown action type, skipping", FALSE)
    ELSE IF action.type = "mailHook"
    THEN mailExecute(action, cfg, cached, env)
    ELSE webhookExecute(action, cfg, env)

\* getTransporter without line 30: the transport is not kept
CacheAfterForget(action, cached, run) == cached

\* getTransporter: a created transport is kept under its instance name
CacheAfter(action, cached, run) ==
    IF run.handler = "mailHook" /\ ~run.threw
        /\ \E k \in 1..Len(run.io) : run.io[k] = "createTransport"
    THEN cached \cup {action.instance}
    ELSE cached

\* nodemailer.createTransport returned a transport for the instance
Created(action, t, run) ==
    IF run.handler = "mailHook" /\ ~run.threw
        /\ \E k \in 1..Len(run.io) : run.io[k] = "createTransport"
    THEN [t EXCEPT !.created[action.instance] = @ + 1]
    ELSE t

Call(job, action, run) == [job |-> job, action |-> action, run |-> run]

\* the loops of lines 207-214 that go on to the next image when a
\* notification of an image has been attempted
AdvanceSkipSiblings(rec, job) ==
    [rec EXCEPT
        !.ri = rec.ri + 1,
        !.ai = 1,
        !.pc = IF rec.ri = Len(rec.updatedRepos) THEN "done" ELSE "notify"]

\* the loops of lines 207-214: the next action of the image, then the
\* next updated image, then the end of checkForUpdates
Advance(rec, job) ==
    IF rec.ai < Len(job.actions)
    THEN [rec EXCEPT !.ai = rec.ai + 1]
    ELSE [rec EXCEPT
            !.ri = rec.ri + 1,
            !.ai = 1,
            !.pc = IF rec.ri = Len(rec.updatedRepos) THEN "done" ELSE "notify"]

\* clearTransporterCache, mail.ts lines 74-76
ClearTransporterCache ==
    /\ transports.clears < MaxClears
    /\ transporterCache' = {}
    /\ transports' = [transports EXCEPT !.clears = @ + 1]
    /\ UNCHANGED <<configFile, parsed, webhook, config, validation, api, file, cycles, startOrder, phase, exitCode>>

\* one await actionRegistry.executeAction(...) of line 209 settles
ExecuteAction(c) ==
    /\ cycles[c].pc = "notify"
    /\ LET rec == cycles[c]
           j == rec.updatedRepos[rec.ri]
           job == config.notifyServices[j]
           action == job.actions[rec.ai]
       IN  \E env \in Envs :
            LET run == executeAction(action, config, transporterCache, env)
                called == [rec EXCEPT !.calls = Append(@, Call(j, rec.ai, run))]
            IN  /\ transporterCache' = CacheAfter(action, transporterCache, run)
                /\ transports' = Created(action, transports, run)
                /\ IF run.threw
                   THEN Throws(c, [called EXCEPT !.error = "executeAction"])
                   ELSE /\ cycles' = [cycles EXCEPT ![c] = Advance(called, job)]
                        /\ UNCHANGED <<phase, exitCode>>
    /\ UNCHANGED <<configFile, parsed, webhook, config, validation, api, file, startOrder>>

\* line 209 that calls executeAction without awaiting it
ExecuteCallUnawaited(c) ==
    /\ cycles[c].pc = "notify"
    /\ cycles[c].running < 2
    /\ cycles' = [cycles EXCEPT ![c].running = @ + 1]
    /\ UNCHANGED <<configFile, parsed, webhook, config, validation, api, transports, file, startOrder, phase, exitCode, transporterCache>>

\* line 209: executeAction is called for the action the loops stand at, and
\* checkForUpdates waits for it
ExecuteCall(c) ==
    /\ cycles[c].pc = "notify"
    /\ cycles' = [cycles EXCEPT ![c].pc = "execute", ![c].running = @ + 1]
    /\ UNCHANGED <<configFile, parsed, webhook, config, validation, api, transports, file, startOrder, phase, exitCode, transporterCache>>

\* the executeAction awaited at line 209 settles: the loops go on, or the
\* cycle is rejected
ExecuteSettle(c) ==
    /\ cycles[c].pc = "execute"
    /\ LET rec == cycles[c]
           j == rec.updatedRepos[rec.ri]
           job == config.notifyServices[j]
           action == job.actions[rec.ai]
       IN  \E env \in Envs :
            LET run == executeAction(action, config, transporterCache, env)
                called == [rec EXCEPT !.calls = Append(@, Call(j, rec.ai, run)),
                                      !.running = @ - 1,
                                      !.pc = "notify"]
            IN  /\ transporterCache' = CacheAfter(action, transporterCache, run)
                /\ transports' = Created(action, transports, run)
                /\ IF run.threw
                   THEN Throws(c, [called EXCEPT !.error = "executeAction"])
                   ELSE /\ cycles' = [cycles EXCEPT ![c] = Advance(called, job)]
                        /\ UNCHANGED <<phase, exitCode>>
    /\ UNCHANGED <<configFile, parsed, webhook, config, validation, api, file, startOrder>>

-----------------------------------------------------------------------------
(* loadConfig, index.ts lines 53-91 *)

\* what a configuration file holds: nothing readable ("absent"), a
\* configuration the schema accepts, JSON the schema rejects, a
\* configuration whose closing brace is missing, or no JSON at all
FileTexts == {"absent", "valid", "schema-invalid", "truncated", "garbage"}

ConfigFile(jsonc, json, log) == [jsonc |-> jsonc, json |-> json, log |-> log]

ConfigFiles == {ConfigFile(jsonc, json, "") : jsonc \in FileTexts, json \in FileTexts}

ConfigLoaded == ConfigFile("absent", "valid", "Configuration loaded")

\* parse of jsonc-parser, called without an errors array: it never throws
\* and returns what it could read of a text that is not JSON
parseJsonc(text) ==
    IF text \in {"valid", "truncated"} THEN [threw |-> FALSE, value |-> "valid"]
    ELSE IF text = "schema-invalid" THEN [threw |-> FALSE, value |-> "schema-invalid"]
    ELSE [threw |-> FALSE, value |-> "undefined"]

\* JSON.parse throws on a text that is not JSON
JsonParseConfig(text) ==
    IF text \in {"valid", "schema-invalid"} THEN [threw |-> FALSE, value |-> text]
    ELSE [threw |-> TRUE, value |-> "undefined"]

\* the superRefine of ConfigSchema, schema.ts lines 60-82: every action
\* names an instance whose lookup in the map of its kind is truthy
SuperRefine(cfg) ==
    \A i \in 1..Len(cfg.notifyServices) :
        \A k \in 1..Len(cfg.notifyServices[i].actions) :
            LET action == cfg.notifyServices[i].actions[k]
            IN  IF action.type = "webHook"
                THEN Property(cfg, "webHooks", action.instance) # "undefined"
                ELSE IF action.type = "mailHook"
                THEN Property(cfg, "smtpServer", action.instance) # "undefined"
                ELSE FALSE

\* ConfigSchema.safeParse(rawConfig).success, for a text that holds cfg
\* when the schema accepts its fields
SafeParse(value, cfg) == value = "valid" /\ SuperRefine(cfg)

Loaded(exit, log) == [exit |-> exit, log |-> log]

\* loadConfig: the status it exits with (0 when it returns the Config) and
\* its last log line
loadConfig(cf, cfg) ==
    IF cf.jsonc = "absent" /\ cf.json = "absent"
    THEN Loaded(1, "Failed to load configuration file")
    ELSE LET useJsonc == cf.jsonc # "absent"
             rawConfig == IF useJsonc THEN parseJsonc(cf.jsonc)
                          ELSE JsonParseConfig(cf.json)
         IN  IF rawConfig.threw
             THEN Loaded(1, "Failed to parse configuration file")
             ELSE IF ~SafeParse(rawConfig.value, cfg)
             THEN Loaded(2, "Configuration validation failed")
             ELSE Loaded(0, "Configuration loaded")

\* main(): const config = await loadConfig()
LoadConfig ==
    /\ phase = "load"
    /\ LET loaded == loadConfig(configFile, config)
       IN  /\ configFile' = [configFile EXCEPT !.log = loaded.log]
           /\ exitCode' = loaded.exit
           /\ phase' = IF loaded.exit = 0 THEN "init" ELSE "exited"
    /\ UNCHANGED <<parsed, webhook, config, validation, api, transports, file,
                   cycles, startOrder, transporterCache>>

-----------------------------------------------------------------------------
(* parseImageString and parseNotifyServices, index.ts lines 20-30 and 93-99 *)

\* an image string is the sequence of its characters
Chars == {"a", "/", ":"}

ImageStrings == UNION {[1..k -> Chars] : k \in 1..MaxChars}

\* the characters of a sequence as one string
RECURSIVE Str(_)
Str(chars) == IF chars = <<>> THEN "" ELSE Head(chars) \o Str(Tail(chars))

\* String.prototype.split: the pieces between the separators, one piece
\* more than there are separators
RECURSIVE Split(_, _)
Split(chars, separator) ==
    IF \E k \in 1..Len(chars) : chars[k] = separator
    THEN LET k == CHOOSE i \in 1..Len(chars) :
                        chars[i] = separator /\ \A j \in 1..(i - 1) : chars[j] # separator
         IN  <<SubSeq(chars, 1, k - 1)>> \o Split(SubSeq(chars, k + 1, Len(chars)), separator)
    ELSE <<chars>>

\* ParsedImage: tag is <<>> for undefined and <<t>> for the string t
ParsedImage(user, name, tag) == [user |-> user, name |-> name, tag |-> tag]

\* parseImageString that takes the namespace from the string in any case
parseImageStringAsWritten(imageString) ==
    LET parts == Split(imageString, "/")
        nameWithTag == IF Len(parts) > 1 THEN parts[2] ELSE parts[1]
        tagParts == Split(nameWithTag, ":")
    IN  ParsedImage(Str(parts[1]), Str(tagParts[1]),
                    IF Len(tagParts) > 1 THEN <<Str(tagParts[2])>> ELSE <<>>)

\* parseImageString, index.ts lines 20-30
parseImageString(imageString) ==
    LET parts == Split(imageString, "/")
        user == IF Len(parts) > 1 THEN Str(parts[1]) ELSE "library"
        nameWithTag == IF Len(parts) > 1 THEN parts[2] ELSE parts[1]
        tagParts == Split(nameWithTag, ":")
        name == Str(tagParts[1])
        tag == IF Len(tagParts) > 1 THEN <<Str(tagParts[2])>> ELSE <<>>
    IN  ParsedImage(user, name, tag)

\* the ParsedImage as the cycle uses it: the tag is only tested for being
\* truthy (lines 34, 42, 111, 186), and undefined and "" are both falsy
AsImage(image) ==
    Image(image.user, image.name, IF image.tag = <<>> THEN "" ELSE image.tag[1])

NotParsed == [originalImage |-> <<>>, done |-> FALSE, image |-> ParsedImage("", "", <<>>)]

\* parseNotifyServices, index.ts lines 93-99, for one service
ParseNotifyServices ==
    /\ ~parsed.done
    /\ parsed.originalImage # <<>>
    /\ parsed' = [parsed EXCEPT !.done = TRUE,
                                !.image = parseImageString(parsed.originalImage)]
    /\ UNCHANGED <<configFile, webhook, config, validation, api, transports, file,
                   cycles, startOrder, phase, exitCode, transporterCache>>

-----------------------------------------------------------------------------
(* replaceMessagePlaceholders, webhook.ts lines 6-32 *)

\* a string is the sequence of its pieces: text, or the placeholder $msg
Placeholder == "$msg"

Pieces == {"text", Placeholder}

StringsUpTo(pieces, n) == UNION {[1..k -> pieces] : k \in 0..n}

\* a JSON value: a string, or a value that is no string (a number, a
\* nested object or array, which may hold strings with the placeholder)
JsString(str) == [type |-> "string", str |-> str]

NonStrings ==
    {[type |-> "number", str |-> <<>>],
     [type |-> "object", str |-> <<Placeholder>>],
     [type |-> "array", str |-> <<Placeholder>>]}

Values == {JsString(str) : str \in StringsUpTo(Pieces, MaxLen)} \cup NonStrings

\* WebhookConfig['httpBody']: null, absent, a string, an array of values,
\* or an object, the sequence of its entries in the order of Object.entries
Body(type, str, items) == [type |-> type, str |-> str, items |-> items]

Entry(key, value) == [key |-> key, value |-> value]

ObjectKeys == <<"k1", "k2", "k3">>

ArrayItems == UNION {[1..k -> Values] : k \in 0..MaxItems}

ObjectEntries ==
    {[i \in 1..Len(vs) |-> Entry(ObjectKeys[i], vs[i])] : vs \in ArrayItems}

Bodies ==
    {Body("null", <<>>, <<>>), Body("undefined", <<>>, <<>>)}
        \cup {Body("string", str, <<>>) : str \in StringsUpTo(Pieces, MaxLen)}
        \cup {Body("array", <<>>, items) : items \in ArrayItems}
        \cup {Body("object", <<>>, entries) : entries \in ObjectEntries}

\* the message of webhook.ts line 46, in pieces of text
Messages == {<<"X">>, <<"Y", "Z">>}

\* String.prototype.replace with a string pattern: the first occurrence
\* of the pattern is replaced, the rest of the string is kept
Replace(str, pattern, replacement) ==
    IF \E k \in 1..Len(str) : str[k] = pattern
    THEN LET k == CHOOSE i \in 1..Len(str) :
                        str[i] = pattern /\ \A j \in 1..(i - 1) : str[j] # pattern
         IN  SubSeq(str, 1, k - 1) \o replacement \o SubSeq(str, k + 1, Len(str))
    ELSE str

\* lines 16 and 22-26: a string value is replaced, any other value is kept
ReplaceValue(value, message) ==
    IF value.type = "string"
    THEN JsString(Replace(value.str, Placeholder, message))
    ELSE value

\* replaceMessagePlaceholders, webhook.ts lines 6-32
replaceMessagePlaceholders(body, message) ==
    IF body.type \in {"null", "undefined"}
    THEN body
    ELSE IF body.type = "string"
    THEN Body("string", Replace(body.str, Placeholder, message), <<>>)
    ELSE IF body.type = "array"
    THEN Body("array", <<>>,
              [i \in 1..Len(body.items) |-> ReplaceValue(body.items[i], message)])
    ELSE Body("object", <<>>,
              [i \in 1..Len(body.items) |->
                  Entry(body.items[i].key, ReplaceValue(body.items[i].value, message))])

\* one call of replaceMessagePlaceholders: its arguments and what it returned
WebhookCall(pc, httpBody, message, body) ==
    [pc |-> pc, httpBody |-> httpBody, message |-> message, body |-> body]

NoWebhook == WebhookCall("idle", Body("null", <<>>, <<>>), <<>>, Body("null", <<>>, <<>>))

\* webhook.ts line 47
ReplaceMessagePlaceholders ==
    /\ webhook.pc = "called"
    /\ webhook' = [webhook EXCEPT
                    !.pc = "returned",
                    !.body = replaceMessagePlaceholders(webhook.httpBody, webhook.message)]
    /\ UNCHANGED <<configFile, parsed, config, validation, api, transports, file,
                   cycles, startOrder, phase, exitCode, transporterCache>>

-----------------------------------------------------------------------------
(* validateAllActions and the handlers' validateInstance *)

\* a validateInstance that asks for an entry of the map itself
mailValidateInstanceOwn(action, cfg) ==
    IF action.type # "mailHook" THEN FALSE
    ELSE action.instance \in OwnKeys(cfg, "smtpServer")

\* mailAction.validateInstance, mail.ts lines 68-71
mailValidateInstance(action, cfg) ==
    IF action.type # "mailHook" THEN FALSE
    ELSE Property(cfg, "smtpServer", action.instance) # "undefined"

\* webhookAction.validateInstance, webhook.ts lines 79-82
webhookValidateInstance(action, cfg) ==
    IF action.type # "webHook" THEN FALSE
    ELSE Property(cfg, "webHooks", action.instance) # "undefined"

\* handler.validateInstance of the handler registered for the action's kind
validateInstance(action, cfg) ==
    IF action.type = "mailHook"
    THEN mailValidateInstance(action, cfg)
    ELSE webhookValidateInstance(action, cfg)

\* what a validateAllActions call returned, and the actions it looked at,
\* as <<service, action>> positions in the order it looked at them
Validation(done, result, examined) ==
    [done |-> done, result |-> result, examined |-> examined]

NotValidated == Validation(FALSE, FALSE, <<>>)

\* the loops of actions/index.ts lines 39-49 without the early returns:
\* every action is looked at and the verdicts are combined at the end
RECURSIVE ValidateToTheEnd(_, _, _, _, _)
ValidateToTheEnd(cfg, i, k, examined, result) ==
    IF i > Len(cfg.notifyServices) THEN Validation(TRUE, result, examined)
    ELSE IF k > Len(cfg.notifyServices[i].actions)
    THEN ValidateToTheEnd(cfg, i + 1, 1, examined, result)
    ELSE LET action == cfg.notifyServices[i].actions[k]
         IN  ValidateToTheEnd(cfg, i, k + 1, Append(examined, <<i, k>>),
                /\ result
                /\ action.type \in Handlers
                /\ validateInstance(action, cfg))

\* the loops of actions/index.ts lines 39-49 from action k of service i on;
\* result is TRUE as long as no action was refused
RECURSIVE ValidateFrom(_, _, _, _, _)
ValidateFrom(cfg, i, k, examined, result) ==
    IF i > Len(cfg.notifyServices) THEN Validation(TRUE, result, examined)
    ELSE IF k > Len(cfg.notifyServices[i].actions)
    THEN ValidateFrom(cfg, i + 1, 1, examined, result)
    ELSE LET action == cfg.notifyServices[i].actions[k]
             seen == Append(examined, <<i, k>>)
         IN  IF action.type \notin Handlers THEN Validation(TRUE, FALSE, seen)
             ELSE IF ~validateInstance(action, cfg) THEN Validation(TRUE, FALSE, seen)
             ELSE ValidateFrom(cfg, i, k + 1, seen, result)

\* ActionRegistry.validateAllActions, actions/index.ts lines 38-51
validateAllActions(cfg) == ValidateFrom(cfg, 1, 1, <<>>, TRUE)

\* main(), lines 226-229: exit status 3 when the validation fails
MainValidate ==
    /\ phase = "init"
    /\ ~validation.done
    /\ validation' = validateAllActions(config)
    /\ IF validation'.result
       THEN UNCHANGED <<phase, exitCode>>
       ELSE phase' = "exited" /\ exitCode' = 3
    /\ UNCHANGED <<configFile, parsed, webhook, config, api, transports, file, cycles, startOrder, transporterCache>>

-----------------------------------------------------------------------------
(* One DockerAPI call *)

\* dockerApi.ts: const PAGE_SIZE = 100
PAGE_SIZE == 100

\* what got gives for one GET: error is "" for a 2xx answer with a JSON
\* body, else the error got rejects with; count and results are the fields
\* of a TagsResponse, found and last_updated those of a RepositoryInfo
\* (found is FALSE for a falsy body)
Answer(error, count, results, found, last_updated) ==
    [error |-> error, count |-> count, results |-> results, found |-> found,
     last_updated |-> last_updated]

NoAnswer == Answer("pending", 0, <<>>, FALSE, "")

GotErrors == {"HTTPError 404", "HTTPError 500", "RequestError"}

Failed(error) == Answer(error, 0, <<>>, FALSE, "")

\* the answers to GET /v2/repositories/{user}/{name}
RepositoryAnswers ==
    {Failed(error) : error \in GotErrors}
        \cup {Answer("", 0, <<>>, FALSE, "")}
        \cup {Answer("", 0, <<>>, TRUE, t) : t \in Timestamps}

\* the total counts a first page may disclose
Counts ==
    {0, 5, 150} \cup {PAGE_SIZE * k : k \in 1..MaxPages}
        \cup {PAGE_SIZE * k + 1 : k \in 0..(MaxPages - 1)}

OtherTag(page) == "t" \o ToString(page)

\* the results a page may carry: a tag of its own, with the tag asked for
\* after it, before it, or not at all
PageResults(page, tag) ==
    {<<Tag(OtherTag(page), IsoString(1))>>,
     <<Tag(OtherTag(page), IsoString(1)), Tag(tag, IsoString(MaxInstant))>>,
     <<Tag(tag, IsoString(1)), Tag(OtherTag(page), IsoString(1))>>}

\* the answers to GET .../tags?page_size=100&page=N
PageAnswers(page, tag) ==
    {Failed(error) : error \in GotErrors}
        \cup {Answer("", count, results, FALSE, "") :
                count \in Counts, results \in PageResults(page, tag)}

\* how a DockerAPI call ended: resolve with a value, or reject with an error
Outcome(kind, error, tags, found, last_updated, log) ==
    [kind |-> kind, error |-> error, tags |-> tags, found |-> found,
     last_updated |-> last_updated, log |-> log]

NoOutcome == Outcome("pending", "", <<>>, FALSE, "", "")

\* makeRequest that hides the cause of a failure behind an error of its own
makeRequestOpaque(answer) ==
    IF answer.error # ""
    THEN Outcome("reject", "Error", <<>>, FALSE, "", "Docker Hub API request failed")
    ELSE Outcome("resolve", "", answer.results, answer.found, answer.last_updated, "")

\* DockerAPI.makeRequest, lines 344-360: the body, or the error of got
\* logged and thrown again
makeRequest(answer) ==
    IF answer.error # ""
    THEN Outcome("reject", answer.error, <<>>, FALSE, "",
                 "Docker Hub API request failed")
    ELSE Outcome("resolve", "", answer.results, answer.found, answer.last_updated, "")

\* DockerAPI.getRepository, lines 307-311
getRepository(answer) == makeRequest(answer)

\* Math.floor(totalCount / PAGE_SIZE)
MaxPageFloor(totalCount) == totalCount \div PAGE_SIZE

\* line 325: Math.ceil(totalCount / PAGE_SIZE)
MaxPage(totalCount) == (totalCount + PAGE_SIZE - 1) \div PAGE_SIZE

\* the results of the pages in the order their answers arrived
RECURSIVE FlatMapArrived(_, _, _)
FlatMapArrived(answers, arrivals, k) ==
    IF k > Len(arrivals) THEN <<>>
    ELSE answers[arrivals[k]].results \o FlatMapArrived(answers, arrivals, k + 1)

AssembleAsArrived(answers, arrivals) ==
    answers[1].results \o FlatMapArrived(answers, arrivals, 1)

\* line 341: allResults.flatMap((result) => result.results), from page p on
RECURSIVE FlatMap(_, _)
FlatMap(answers, p) ==
    IF p > Len(answers) THEN <<>>
    ELSE answers[p].results \o FlatMap(answers, p + 1)

\* lines 338-341: Promise.all keeps the order of the promises, which is the
\* order of the pages, whatever the order of the answers
Assemble(answers, arrivals) == FlatMap(answers, 1)

\* the call followed: requests are the pages asked for in the order of the
\* requests, answers what each page answered, arrivals the pages after the
\* first in the order their answers came, result what checkRepository
\* returned for the image once the call had ended
ApiCall(call, pc, job, requests, answers, arrivals, count, outcome, result) ==
    [call |-> call, pc |-> pc, job |-> job, requests |-> requests,
     answers |-> answers, arrivals |-> arrivals, count |-> count,
     outcome |-> outcome, result |-> result]

NoCall == ApiCall("none", "idle", 1, <<>>, <<>>, <<>>, 0, NoOutcome, Pending)

\* what checkRepository gets from the call: line 112 or line 122
AsResponse(call, outcome) ==
    IF outcome.kind = "reject" THEN Rejected
    ELSE IF call = "getTags" THEN Response("tags", outcome.tags, TRUE, "")
    ELSE Response("repo", <<>>, outcome.found, outcome.last_updated)

\* the entry checkRepository is called with
KnownEntry(job) == [defined |-> TRUE, entry |-> CacheEntry(job.image, IsoString(1))]

\* the call ends and checkRepository goes on after its await
Ended(a, outcome) ==
    [a EXCEPT
        !.pc = IF outcome.kind = "reject" THEN "rejected" ELSE "resolved",
        !.outcome = outcome,
        !.result = checkRepository(config.notifyServices[a.job],
                                   KnownEntry(config.notifyServices[a.job]),
                                   AsResponse(a.call, outcome))]

\* lines 319-336: the first page has answered
AfterFirstPage(a, answer) ==
    LET first == makeRequest(answer)
        maxPage == MaxPage(answer.count)
    IN  IF first.kind = "reject"
        THEN Ended([a EXCEPT !.answers = <<answer>>], first)
        ELSE IF maxPage <= 1
        THEN Ended([a EXCEPT !.answers = <<answer>>, !.count = answer.count],
                   Outcome("resolve", "", answer.results, FALSE, "", ""))
        ELSE [a EXCEPT
                !.pc = "pages",
                !.count = answer.count,
                !.answers = <<answer>> \o [p \in 1..(maxPage - 1) |-> NoAnswer],
                !.requests = @ \o [p \in 1..(maxPage - 1) |-> p + 1]]

\* a Promise.all that waits for every page and takes a failed page as a
\* page without results
AfterLaterPageTolerant(a, page, answer) ==
    LET answers == [a.answers EXCEPT ![page] = answer]
        arrivals == Append(a.arrivals, page)
        arrived == [a EXCEPT !.answers = answers, !.arrivals = arrivals]
    IN  IF \E p \in 1..Len(answers) : answers[p] = NoAnswer
        THEN arrived
        ELSE Ended(arrived,
                   Outcome("resolve", "", Assemble(answers, arrivals), FALSE, "", ""))

\* lines 338-341: one of the pages 2..maxPage has answered.  Promise.all
\* rejects with the first rejection and resolves when every page is there
AfterLaterPage(a, page, answer) ==
    LET this == makeRequest(answer)
        answers == [a.answers EXCEPT ![page] = answer]
        arrivals == Append(a.arrivals, page)
        arrived == [a EXCEPT !.answers = answers, !.arrivals = arrivals]
    IN  IF this.kind = "reject" THEN Ended(arrived, this)
        ELSE IF \E p \in 1..Len(answers) : answers[p] = NoAnswer
        THEN arrived
        ELSE Ended(arrived,
                   Outcome("resolve", "", Assemble(answers, arrivals), FALSE, "", ""))

\* checkRepository of an image with a tag calls getTags (line 112): the
\* request of page 1 is sent
CallGetTags(j) ==
    /\ api.call = "none"
    /\ config.notifyServices[j].image.tag # ""
    /\ api' = ApiCall("getTags", "first", j, <<1>>, <<NoAnswer>>, <<>>, 0,
                      NoOutcome, Pending)
    /\ UNCHANGED <<configFile, parsed, webhook, config, validation, transports, file, cycles, startOrder, phase,
                   exitCode, transporterCache>>

\* checkRepository of an image without a tag calls getRepository (line 122)
CallGetRepository(j) ==
    /\ api.call = "none"
    /\ config.notifyServices[j].image.tag = ""
    /\ api' = ApiCall("getRepository", "first", j, <<1>>, <<NoAnswer>>, <<>>, 0,
                      NoOutcome, Pending)
    /\ UNCHANGED <<configFile, parsed, webhook, config, validation, transports, file, cycles, startOrder, phase,
                   exitCode, transporterCache>>

\* the request of getRepository settles
RepositoryAnswer ==
    /\ api.call = "getRepository"
    /\ api.pc = "first"
    /\ \E answer \in RepositoryAnswers :
        api' = Ended([api EXCEPT !.answers = <<answer>>], getRepository(answer))
    /\ UNCHANGED <<configFile, parsed, webhook, config, validation, transports, file, cycles, startOrder, phase,
                   exitCode, transporterCache>>

\* the request of page 1 settles
FirstPageAnswer ==
    /\ api.call = "getTags"
    /\ api.pc = "first"
    /\ \E answer \in PageAnswers(1, config.notifyServices[api.job].image.tag) :
        api' = AfterFirstPage(api, answer)
    /\ UNCHANGED <<configFile, parsed, webhook, config, validation, transports, file, cycles, startOrder, phase,
                   exitCode, transporterCache>>

\* the request of one of the later pages settles, in any order
LaterPageAnswer ==
    /\ api.call = "getTags"
    /\ api.pc = "pages"
    /\ \E page \in 2..Len(api.answers) :
        /\ api.answers[page] = NoAnswer
        /\ \E answer \in PageAnswers(page, config.notifyServices[api.job].image.tag) :
            api' = AfterLaterPage(api, page, answer)
    /\ UNCHANGED <<configFile, parsed, webhook, config, validation, transports, file, cycles, startOrder, phase,
                   exitCode, transporterCache>>

-----------------------------------------------------------------------------
(* Initial states *)

\* the objects a cache file written by an earlier run may hold: any of the
\* tracked images, with any timestamp, after an image no longer tracked
RECURSIVE ObjectOf(_, _, _)
ObjectOf(services, choice, i) ==
    IF i > Len(services) THEN <<>>
    ELSE (IF choice[i] = "" THEN <<>>
          ELSE <<Member(getCacheKey(services[i].image),
                        CacheEntry(services[i].image, choice[i]))>>)
         \o ObjectOf(services, choice, i + 1)

StaleMember == Member(getCacheKey(Gone), CacheEntry(Gone, IsoString(1)))

InitObjects(services) ==
    LET tracked == {ObjectOf(services, choice, 1) :
                        choice \in [1..Len(services) -> Timestamps \cup {""}]}
    IN  tracked \cup {<<StaleMember>> \o obj : obj \in tracked}

\* no file, a file that is not JSON, or a file holding an object
InitFiles(services) ==
    {[exists |-> FALSE, data |-> <<>>],
     [exists |-> TRUE, data |-> <<LBrace, LBrace, LBrace>>]}
        \cup {[exists |-> TRUE, data |-> JsonStringify(obj)] :
                obj \in InitObjects(services)}

\* no transport created, no clearTransporterCache called
NoTransports(cfg) ==
    [created |-> [i \in OwnKeys(cfg, "smtpServer") \cup ObjectPrototype |-> 0],
     clears |-> 0]

InitWith(cfg) ==
    /\ config = cfg
    /\ validation = validateAllActions(cfg)
    /\ api = NoCall
    /\ configFile = ConfigLoaded
    /\ parsed = NotParsed
    /\ webhook = NoWebhook
    /\ transports = NoTransports(cfg)
    /\ file \in InitFiles(cfg.notifyServices)
    /\ cycles = [c \in Slots |-> IdleCycle]
    /\ startOrder = <<>>
    /\ phase = "init"
    /\ exitCode = 0
    /\ transporterCache = {}

\* the process with two tracked images
Init ==
    \E username \in Usernames, password \in Passwords :
        InitWith(Config(username, password, FullServices, {"smtp"}, {"hook"}))

\* the process with one tracked image
InitOverlap ==
    \E credentials \in {<<"", "">>, <<"user", "secret">>} :
        InitWith(Config(credentials[1], credentials[2], SmallServices,
                        {"smtp"}, {"hook"}))

\* the dispatch loop of lines 207-214 entered with a batch of actions that
\* no validation has seen: every image of the batch was found updated
UnknownAction == [type |-> "unknownAction", instance |-> "test"]

BatchActions ==
    LET one == {<<a>> : a \in {WebHook("hook"), MailHook("smtp"), UnknownAction}}
    IN  one \cup {a \o b : a \in one, b \in one}

BatchServices ==
    {<<Job(Nginx, a)>> : a \in BatchActions}
        \cup {<<Job(Nginx, a), Job(App, b)>> : a \in BatchActions, b \in BatchActions}

BatchResult(image) ==
    Result("ok", IsoString(2), TRUE, "",
           IF image.tag # ""
           THEN Response("tags", <<Tag(image.tag, IsoString(2))>>, TRUE, "")
           ELSE Response("repo", <<>>, TRUE, IsoString(2)))

InitBatch(cfg) ==
        LET services == cfg.notifyServices
            n == Len(services)
            results == [i \in 1..n |-> BatchResult(services[i].image)]
            rec == [IdleCycle EXCEPT
                        !.pc = "notify",
                        !.load = "parsed",
                        !.saved = TRUE,
                        !.reads = 1,
                        !.writes = 1,
                        !.tokens = [i \in 1..n |-> ""],
                        !.results = results,
                        !.updatedRepos = [i \in 1..n |-> i]]
            written == [rec EXCEPT !.newCache = NewCache(services, rec)]
        IN  /\ config = cfg
            /\ validation = validateAllActions(config)
            /\ api = NoCall
            /\ configFile = ConfigLoaded
            /\ parsed = NotParsed
            /\ webhook = NoWebhook
            /\ file = [exists |-> TRUE, data |-> JsonStringify(written.newCache)]
            /\ cycles = [c \in Slots |-> IF c = 1 THEN written ELSE IdleCycle]
            /\ startOrder = <<1>>
            /\ phase = "scheduled"
            /\ exitCode = 0
            /\ transporterCache \in SUBSET OwnKeys(cfg, "smtpServer")
            /\ transports = [NoTransports(cfg) EXCEPT
                                !.created = [i \in DOMAIN @ |->
                                                IF i \in transporterCache THEN 1 ELSE 0]]

InitDispatch ==
    \E services \in BatchServices :
        InitBatch(Config("", "", services, {"smtp"}, {"hook"}))

-----------------------------------------------------------------------------
(* Specifications *)

Step(c) ==
    \/ GetToken(c)
    \/ GetCache(c)
    \/ WriteFileOpen(c)
    \/ WriteFileData(c)
    \/ WriteFileFail(c)
    \/ \E i \in 1..NumServices : CheckRepository(c, i)
    \/ Collect(c)
    \/ ExecuteAction(c)

\* every cycle returns before the next tick of the timer
Next ==
    \/ MainStart
    \/ MainSchedule
    \/ TickIdle
    \/ \E c \in Slots : Step(c)

Spec == Init /\ [][Next]_vars

\* the timer ticks whatever the earlier cycles are doing
NextOverlap ==
    \/ MainStart
    \/ MainSchedule
    \/ Tick
    \/ \E c \in Slots : Step(c)

SpecOverlap == InitOverlap /\ [][NextOverlap]_vars

\* the Cache under one caller that calls getCache() and writeCache(m) one
\* after the other, in any order and with any map
InitStore == InitWith(Config("", "", SmallServices, {"smtp"}, {"hook"}))

Returned(c) == cycles[c].pc \in {"idle", "fetch", "done", "failed"}

\* cache.getCache() is called
CallGetCache(c) ==
    /\ Returned(c)
    /\ cycles' = [cycles EXCEPT ![c].pc = "load", ![c].load = "",
                                 ![c].error = "", ![c].reads = 0, ![c].writes = 0]
    /\ UNCHANGED <<configFile, parsed, webhook, config, validation, api, transports, file, startOrder, phase,
                   exitCode, transporterCache>>

\* cache.writeCache(m) is called
CallWriteCache(c, m) ==
    /\ Returned(c)
    /\ cycles' = [cycles EXCEPT ![c].pc = "persist_open", ![c].newCache = m,
                                 ![c].saved = FALSE, ![c].error = "",
                                 ![c].reads = 0, ![c].writes = 0]
    /\ UNCHANGED <<configFile, parsed, webhook, config, validation, api, transports, file, startOrder, phase,
                   exitCode, transporterCache>>

NextStore ==
    \/ CallGetCache(1)
    \/ \E m \in InitObjects(config.notifyServices) : CallWriteCache(1, m)
    \/ GetCache(1)
    \/ WriteFileOpen(1)
    \/ WriteFileData(1)
    \/ WriteFileFail(1)

SpecStore == InitStore /\ [][NextStore]_vars

\* main() up to the validation of line 226, on a configuration whose
\* actions nothing has validated: kinds without a handler, instances
\* without an entry
InitValidate ==
    \E services \in BatchServices, smtpServer \in SUBSET {"smtp"},
       webHooks \in SUBSET {"hook"} :
        /\ config = Config("", "", services, smtpServer, webHooks)
        /\ validation = NotValidated
        /\ api = NoCall
        /\ configFile = ConfigLoaded
        /\ parsed = NotParsed
        /\ webhook = NoWebhook
        /\ transports = NoTransports(config)
        /\ file = [exists |-> FALSE, data |-> <<>>]
        /\ cycles = [c \in Slots |-> IdleCycle]
        /\ startOrder = <<>>
        /\ phase = "init"
        /\ exitCode = 0
        /\ transporterCache = {}

NextValidate == MainValidate

SpecValidate == InitValidate /\ [][NextValidate]_vars

\* one checkRepository with its DockerAPI call, request by request
InitRegistry ==
    /\ config = Config("", "", FullServices, {"smtp"}, {"hook"})
    /\ validation = validateAllActions(config)
    /\ api = NoCall
    /\ configFile = ConfigLoaded
    /\ parsed = NotParsed
    /\ webhook = NoWebhook
    /\ transports = NoTransports(config)
    /\ file = [exists |-> TRUE, data |-> JsonStringify(<<>>)]
    /\ cycles = [c \in Slots |-> IdleCycle]
    /\ startOrder = <<>>
    /\ phase = "scheduled"
    /\ exitCode = 0
    /\ transporterCache = {}

NextRegistry ==
    \/ \E j \in 1..NumServices : CallGetTags(j)
    \/ \E j \in 1..NumServices : CallGetRepository(j)
    \/ RepositoryAnswer
    \/ FirstPageAnswer
    \/ LaterPageAnswer

SpecRegistry == InitRegistry /\ [][NextRegistry]_vars

\* one tracked image with mail actions for two SMTP instances, one of them
\* used twice
MailServices ==
    <<Job(Nginx, <<MailHook("smtp"), MailHook("backup"), MailHook("smtp")>>)>>

InitMail ==
    \E credentials \in {<<"", "">>, <<"user", "secret">>} :
        InitWith(Config(credentials[1], credentials[2], MailServices,
                        {"smtp", "backup"}, {}))

\* the process, with clearTransporterCache called at any moment
NextMail ==
    \/ Next
    \/ ClearTransporterCache

SpecMail == InitMail /\ [][NextMail]_vars

\* replaceMessagePlaceholders alone, called with any body and message
InitWebhook ==
    /\ config = Config("", "", SmallServices, {"smtp"}, {"hook"})
    /\ validation = validateAllActions(config)
    /\ api = NoCall
    /\ configFile = ConfigLoaded
    /\ parsed = NotParsed
    /\ \E httpBody \in Bodies, message \in Messages :
            webhook = WebhookCall("called", httpBody, message, Body("undefined", <<>>, <<>>))
    /\ transports = NoTransports(config)
    /\ file = [exists |-> TRUE, data |-> JsonStringify(<<>>)]
    /\ cycles = [c \in Slots |-> IdleCycle]
    /\ startOrder = <<>>
    /\ phase = "scheduled"
    /\ exitCode = 0
    /\ transporterCache = {}

NextWebhook == ReplaceMessagePlaceholders

SpecWebhook == InitWebhook /\ [][NextWebhook]_vars

\* validateAllActions alone, on configurations whose maps are absent, empty
\* or hold one instance, with the actions naming that instance, another
\* name, or a name every object has
InstanceNames == {"smtp", "hook", "constructor"}

InstanceActions ==
    {MailHook(i) : i \in InstanceNames} \cup {WebHook(i) : i \in InstanceNames}

InstanceConfigs ==
    LET lists == {<<a>> : a \in InstanceActions}
                    \cup {<<a, b>> : a \in InstanceActions, b \in InstanceActions}
        full == {Config("", "", <<Job(Nginx, actions)>>, smtpServer, webHooks) :
                    actions \in lists, smtpServer \in SUBSET {"smtp"},
                    webHooks \in SUBSET {"hook"}}
    IN  {Without(cfg, absent) : cfg \in full, absent \in SUBSET {"smtpServer", "webHooks"}}

InitInstance ==
    /\ config \in InstanceConfigs
    /\ validation = NotValidated
    /\ api = NoCall
    /\ configFile = ConfigLoaded
    /\ parsed = NotParsed
    /\ webhook = NoWebhook
    /\ transports = NoTransports(config)
    /\ file = [exists |-> FALSE, data |-> <<>>]
    /\ cycles = [c \in Slots |-> IdleCycle]
    /\ startOrder = <<>>
    /\ phase = "init"
    /\ exitCode = 0
    /\ transporterCache = {}

NextInstance == MainValidate

SpecInstance == InitInstance /\ [][NextInstance]_vars

\* main() from its first line to the registry check, the configuration file
\* holding any of the configurations above
InitAccept ==
    /\ config \in InstanceConfigs
    /\ configFile \in {ConfigFile("absent", "valid", ""), ConfigFile("valid", "absent", "")}
    /\ validation = NotValidated
    /\ api = NoCall
    /\ parsed = NotParsed
    /\ webhook = NoWebhook
    /\ transports = NoTransports(config)
    /\ file = [exists |-> FALSE, data |-> <<>>]
    /\ cycles = [c \in Slots |-> IdleCycle]
    /\ startOrder = <<>>
    /\ phase = "load"
    /\ exitCode = 0
    /\ transporterCache = {}

NextAccept ==
    \/ LoadConfig
    \/ MainValidate

SpecAccept == InitAccept /\ [][NextAccept]_vars

\* main() from its first line, with any content of the two configuration
\* files; config is the Config a file holds when it holds one
SetupConfigs ==
    {Config("", "", SmallServices, {"smtp"}, {"hook"}),
     Config("user", "secret", SmallServices, {"smtp"}, {"hook"}),
     Config("", "", SmallServices, {"smtp"}, {}),
     Without(Config("", "", SmallServices, {"smtp"}, {}), {"webHooks"})}

InitSetup ==
    /\ config \in SetupConfigs
    /\ configFile \in ConfigFiles
    /\ validation = NotValidated
    /\ api = NoCall
    /\ parsed = NotParsed
    /\ webhook = NoWebhook
    /\ transports = NoTransports(config)
    /\ file \in InitFiles(config.notifyServices)
    /\ cycles = [c \in Slots |-> IdleCycle]
    /\ startOrder = <<>>
    /\ phase = "load"
    /\ exitCode = 0
    /\ transporterCache = {}

NextSetup ==
    \/ LoadConfig
    \/ MainValidate
    \/ Next

SpecSetup == InitSetup /\ [][NextSetup]_vars

\* the process with one tracked image whose stored timestamp is the
\* earliest one, the timer ticking whatever the earlier cycles are doing
InitTimer ==
    /\ InitWith(Config("user", "secret", SmallServices, {"smtp"}, {"hook"}))
    /\ file = [exists |-> TRUE,
               data |-> JsonStringify(<<Member(getCacheKey(Nginx),
                                               CacheEntry(Nginx, IsoString(1)))>>)]

SpecTimer == InitTimer /\ [][NextOverlap]_vars

\* the slot the cycle before did not take, of the first two
OtherSlot == IF startOrder[Len(startOrder)] = 1 THEN 2 ELSE 1

\* the interval callback when every earlier cycle has returned, the record
\* of the new cycle standing beside the record of the cycle before it
TickBeside ==
    /\ \A c \in Slots : ~InFlight(c)
    /\ phase = "scheduled"
    /\ startOrder # <<>>
    /\ StartCycle(OtherSlot, "timer")
    /\ UNCHANGED <<configFile, parsed, webhook, config, validation, api, transports, file, phase, exitCode, transporterCache>>

\* the process with one tracked image, every cycle returning before the
\* next tick of the timer
NextBeside ==
    \/ MainStart
    \/ MainSchedule
    \/ TickBeside
    \/ \E c \in Slots : Step(c)

SpecBeside == InitOverlap /\ [][NextBeside]_vars

\* the steps of a cycle, each executeAction in two: its call and its
\* settling
StepByStep(c) ==
    \/ GetToken(c)
    \/ GetCache(c)
    \/ WriteFileOpen(c)
    \/ WriteFileData(c)
    \/ WriteFileFail(c)
    \/ \E i \in 1..NumServices : CheckRepository(c, i)
    \/ Collect(c)
    \/ ExecuteCall(c)
    \/ ExecuteSettle(c)

\* the process with two tracked images, every cycle returning before the
\* next tick of the timer
NextByStep ==
    \/ MainStart
    \/ MainSchedule
    \/ TickIdle
    \/ \E c \in Slots : StepByStep(c)

SpecByStep == Init /\ [][NextByStep]_vars

\* checkRepository of job i of cycle c calls getTags (line 112)
FetchCall(c, i) ==
    /\ cycles[c].pc = "fetch"
    /\ cycles[c].results[i] = Pending
    /\ CallGetTags(i)

\* a checkRepository that goes on only when its getTags call has resolved
FetchSettleResolved(c) ==
    /\ cycles[c].pc = "fetch"
    /\ api.pc = "resolved"
    /\ cycles[c].results[api.job] = Pending
    /\ cycles' = [cycles EXCEPT ![c] = Settle(@, api.job,
            checkRepository(config.notifyServices[api.job],
                            Get(cycles[c].currentCache, ServiceKey(api.job)),
                            AsResponse(api.call, api.outcome)))]
    /\ api' = NoCall
    /\ UNCHANGED <<configFile, parsed, webhook, config, validation, transports, file, startOrder, phase, exitCode, transporterCache>>

\* the getTags call has ended and checkRepository goes on with what it gave
\* and with the cacheEntry it was called with: lines 113-146
FetchSettle(c) ==
    /\ cycles[c].pc = "fetch"
    /\ api.pc \in {"resolved", "rejected"}
    /\ cycles[c].results[api.job] = Pending
    /\ cycles' = [cycles EXCEPT ![c] = Settle(@, api.job,
            checkRepository(config.notifyServices[api.job],
                            Get(cycles[c].currentCache, ServiceKey(api.job)),
                            AsResponse(api.call, api.outcome)))]
    /\ api' = NoCall
    /\ UNCHANGED <<configFile, parsed, webhook, config, validation, transports, file, startOrder, phase, exitCode, transporterCache>>

\* the steps of a cycle, the check of an image being its getTags call
\* request by request
StepByRequest(c) ==
    \/ GetCache(c)
    \/ WriteFileOpen(c)
    \/ WriteFileData(c)
    \/ WriteFileFail(c)
    \/ \E i \in 1..NumServices : FetchCall(c, i)
    \/ FirstPageAnswer
    \/ LaterPageAnswer
    \/ FetchSettle(c)
    \/ Collect(c)
    \/ ExecuteAction(c)

\* the process with one tracked image that has a tag and no Docker Hub
\* credentials, every cycle returning before the next tick of the timer
InitByRequest ==
    /\ InitWith(Config("", "", <<Job(App, <<WebHook("hook")>>)>>,
                       {"smtp"}, {"hook"}))
    /\ file = [exists |-> TRUE,
               data |-> JsonStringify(<<Member(getCacheKey(App),
                                               CacheEntry(App, IsoString(1)))>>)]

NextByRequest ==
    \/ MainStart
    \/ MainSchedule
    \/ TickIdle
    \/ \E c \in Slots : StepByRequest(c)

\* every request, every operation on the cache file and every execute
\* returns or fails: no cycle waits for ever for the step it stands at
SpecByRequest ==
    /\ InitByRequest
    /\ [][NextByRequest]_vars
    /\ WF_vars(\E c \in Slots : StepByRequest(c))

\* parseNotifyServices alone, on any image string
InitImage ==
    /\ config = Config("", "", SmallServices, {"smtp"}, {"hook"})
    /\ validation = NotValidated
    /\ api = NoCall
    /\ configFile = ConfigLoaded
    /\ \E imageString \in ImageStrings :
            parsed = [NotParsed EXCEPT !.originalImage = imageString]
    /\ webhook = NoWebhook
    /\ transports = NoTransports(config)
    /\ file = [exists |-> FALSE, data |-> <<>>]
    /\ cycles = [c \in Slots |-> IdleCycle]
    /\ startOrder = <<>>
    /\ phase = "init"
    /\ exitCode = 0
    /\ transporterCache = {}

NextImage == ParseNotifyServices

SpecImage == InitImage /\ [][NextImage]_vars

\* the dispatcher alone, on one batch
NextDispatch == \E c \in Slots : ExecuteAction(c)

SpecDispatch == InitDispatch /\ [][NextDispatch]_vars

\* the dispatcher alone, on one batch of actions of a configuration whose
\* maps are absent, empty or hold one instance
InitExecute == \E cfg \in InstanceConfigs : InitBatch(cfg)

SpecExecute == InitExecute /\ [][NextDispatch]_vars

-----------------------------------------------------------------------------
(* Properties *)

Cycle(c) == cycles[c]

Checks(c) == 1..Len(cycles[c].results)

\* the text a is an ISO timestamp of an instant strictly before that of b
StrictlyEarlier(a, b) ==
    \E x \in 1..MaxInstant, y \in 1..MaxInstant :
        a = IsoString(x) /\ b = IsoString(y) /\ x < y

\* the loaded snapshot holds an entry under the key of job i
PriorEntry(c, i) ==
    \E k \in 1..Len(Cycle(c).currentCache) :
        Cycle(c).currentCache[k].key = ServiceKey(i)

\* the timestamp the registry's answer carries for job i, "" when the answer
\* is an error or has nothing under the name asked
Fetched(c, i) ==
    LET r == Cycle(c).results[i].response
        tag == config.notifyServices[i].image.tag
        at == {k \in 1..Len(r.tags) : r.tags[k].name = tag}
    IN  IF r.kind = "repo" /\ r.found THEN r.last_updated
        ELSE IF r.kind = "tags" /\ at # {}
        THEN r.tags[CHOOSE k \in at : \A m \in at : k <= m].last_updated
        ELSE ""

Settled(c, i) == Cycle(c).results[i].status # "pending"

\* C1: a check whose fetch succeeds returns a result, with updated = true
\* exactly when the snapshot holds an entry under the image's key and both
\* timestamps are dates and the stored one is strictly earlier; an equal,
\* later or unparsable timestamp gives updated = false, and the cycle never
\* fails while checks are pending
UpdatedIffPriorEntryStrictlyEarlier ==
    \A c \in Slots :
        /\ \A i \in Checks(c) :
            (Settled(c, i) /\ Fetched(c, i) # "") =>
                /\ Cycle(c).results[i].status = "ok"
                /\ Cycle(c).results[i].lastUpdated = Fetched(c, i)
                /\ Cycle(c).results[i].updated <=>
                    \E k \in 1..Len(Cycle(c).currentCache) :
                        /\ Cycle(c).currentCache[k].key = ServiceKey(i)
                        /\ StrictlyEarlier(
                                Cycle(c).currentCache[k].entry.lastUpdated,
                                Fetched(c, i))
        /\ Cycle(c).pc = "failed" => \A i \in Checks(c) : Settled(c, i)

\* C1 witness: in one cycle a check returned updated = true and another one,
\* with a prior entry, fetched an unparsable timestamp and returned false
WitnessUpdatedAndUnparsable ==
    \E c \in Slots :
        /\ Len(Cycle(c).results) = 2
        /\ Cycle(c).results[1].status = "ok" /\ Cycle(c).results[1].updated
        /\ Cycle(c).results[2].status = "ok" /\ ~Cycle(c).results[2].updated
        /\ Cycle(c).results[2].lastUpdated = Garbage
        /\ PriorEntry(c, 2)

\* C2: an image without an entry under its key in the snapshot its cycle
\* loaded is never dispatched in that cycle, whatever was fetched; the map
\* the cycle writes holds its entry with the fetched timestamp
FirstSeenNeverDispatched ==
    \A c \in Slots : \A i \in Checks(c) :
        (Settled(c, i) /\ ~PriorEntry(c, i)) =>
            /\ ~Cycle(c).results[i].updated
            /\ \A n \in 1..Len(Cycle(c).updatedRepos) : Cycle(c).updatedRepos[n] # i
            /\ \A n \in 1..Len(Cycle(c).calls) : Cycle(c).calls[n].job # i
            /\ (Cycle(c).pc \in {"persist_open", "persist_write", "notify", "done"}
                    /\ Fetched(c, i) # "") =>
                \E k \in 1..Len(Cycle(c).newCache) :
                    /\ Cycle(c).newCache[k].key = ServiceKey(i)
                    /\ Cycle(c).newCache[k].entry.lastUpdated = Fetched(c, i)

\* C2 witness: a cycle has returned after fetching the latest timestamp for
\* an image its snapshot did not hold, without any dispatch
WitnessFirstSeenBaseline ==
    \E c \in Slots :
        /\ Cycle(c).pc = "done"
        /\ ~PriorEntry(c, 1)
        /\ Fetched(c, 1) = IsoString(MaxInstant)
        /\ Cycle(c).calls = <<>>
        /\ file.data = JsonStringify(Cycle(c).newCache)

\* the (job, action) pairs in the order C3 asks for: the jobs whose check
\* returned updated = true, in the order of the configuration, each with
\* its actions in declared order
RECURSIVE ExpectedCalls(_, _, _)
ExpectedCalls(services, results, i) ==
    IF i > Len(results) THEN <<>>
    ELSE (IF results[i].updated
          THEN [a \in 1..Len(services[i].actions) |-> <<i, a>>]
          ELSE <<>>) \o ExpectedCalls(services, results, i + 1)

MadeCalls(c) ==
    [n \in 1..Len(Cycle(c).calls) |-> <<Cycle(c).calls[n].job, Cycle(c).calls[n].action>>]

IsPrefix(s, t) == Len(s) <= Len(t) /\ s = SubSeq(t, 1, Len(s))

Persisted == IF file.exists /\ JsonValid(file.data) THEN JsonParse(file.data) ELSE <<>>

Wrote(c) == Cycle(c).pc \in {"notify", "done"}

Collected(c) == Cycle(c).pc \in {"persist_open", "persist_write", "notify", "done"}

\* C4: once a cycle that runs alone has written the state, the file holds
\* one entry per image whose fetch succeeded in the cycle, with the fetched
\* timestamp, and nothing else: no entry of an image whose fetch failed and
\* no entry of the map that was there before
PersistedExactlyFetched ==
    \A c \in Slots :
        Wrote(c) =>
            /\ file.exists /\ JsonValid(file.data)
            /\ \A i \in Checks(c) :
                Fetched(c, i) # "" =>
                    /\ Cardinality({k \in 1..Len(Persisted) :
                                        Persisted[k].key = ServiceKey(i)}) = 1
                    /\ \A k \in 1..Len(Persisted) :
                        Persisted[k].key = ServiceKey(i) =>
                            Persisted[k].entry.lastUpdated = Fetched(c, i)
            /\ \A k \in 1..Len(Persisted) :
                \E i \in Checks(c) :
                    Fetched(c, i) # "" /\ Persisted[k].key = ServiceKey(i)

\* C4 witness: the loaded map held the first image and an image no longer
\* tracked; the first image's fetch failed, the second succeeded, and the
\* file now holds the second image alone
WitnessOldMapReplaced ==
    \E c \in Slots :
        /\ Cycle(c).pc = "done"
        /\ Len(Cycle(c).results) = 2
        /\ PriorEntry(c, 1)
        /\ HasKey(Cycle(c).currentCache, getCacheKey(Gone))
        /\ Fetched(c, 1) = "" /\ Fetched(c, 2) # ""
        /\ Keys(Persisted) = {ServiceKey(2)}

\* job i is left out of the cycle: no result, no entry in the map the cycle
\* writes nor, once written, in the file, and no dispatch
Excluded(c, i) ==
    /\ Cycle(c).results[i].status = "null"
    /\ ~HasKey(Cycle(c).newCache, ServiceKey(i))
    /\ Wrote(c) => ~HasKey(Persisted, ServiceKey(i))
    /\ \A n \in 1..Len(Cycle(c).calls) : Cycle(c).calls[n].job # i

\* the cycle goes on for the jobs other than i: all are checked before the
\* cycle can end, each one fetched is in the map written and in the file,
\* and a cycle that has returned has made every call of each updated one
OthersComplete(c, i) ==
    /\ Cycle(c).pc \in {"failed", "persist_open", "persist_write", "notify", "done"}
            => \A j \in Checks(c) : Settled(c, j)
    /\ \A j \in Checks(c) \ {i} :
        /\ (Collected(c) /\ Fetched(c, j) # "") =>
                /\ HasKey(Cycle(c).newCache, ServiceKey(j))
                /\ Lookup(Cycle(c).newCache, ServiceKey(j)).lastUpdated = Fetched(c, j)
        /\ (Wrote(c) /\ Fetched(c, j) # "") =>
                /\ HasKey(Persisted, ServiceKey(j))
                /\ Lookup(Persisted, ServiceKey(j)).lastUpdated = Fetched(c, j)
        /\ (Cycle(c).pc = "done" /\ Cycle(c).results[j].updated) =>
                \A a \in 1..Len(config.notifyServices[j].actions) :
                    \E n \in 1..Len(Cycle(c).calls) : MadeCalls(c)[n] = <<j, a>>

FetchFailed(c, i) ==
    Settled(c, i) /\ Cycle(c).results[i].response.kind = "throw"

\* C5: an image whose registry request failed is left out of the cycle's
\* state and notifications, and the cycle is not aborted: the other images
\* are checked, persisted and, when updated, dispatched
FetchFailureIsolated ==
    \A c \in Slots : \A i \in Checks(c) :
        FetchFailed(c, i) => Excluded(c, i) /\ OthersComplete(c, i)

\* C5 witness: the first image, known from the snapshot, failed to fetch;
\* the second was updated and its action dispatched, and the file holds the
\* second alone
WitnessFailedImageOtherNotified ==
    \E c \in Slots :
        /\ Cycle(c).pc = "done"
        /\ Len(Cycle(c).results) = 2
        /\ FetchFailed(c, 1) /\ PriorEntry(c, 1)
        /\ Cycle(c).results[2].updated
        /\ MadeCalls(c) = <<<<2, 1>>>>
        /\ Keys(Persisted) = {ServiceKey(2)}

TagAbsent(c, i) ==
    /\ Settled(c, i)
    /\ config.notifyServices[i].image.tag # ""
    /\ Cycle(c).results[i].response.kind = "tags"
    /\ \A k \in 1..Len(Cycle(c).results[i].response.tags) :
        Cycle(c).results[i].response.tags[k].name
            # config.notifyServices[i].image.tag

\* C6: an image whose tag is not in the fetched tag list gets no state
\* entry and no notification in the cycle, and the other images are
\* checked, persisted and notified as usual
MissingTagIsolated ==
    \A c \in Slots : \A i \in Checks(c) :
        TagAbsent(c, i) => Excluded(c, i) /\ OthersComplete(c, i)

\* C6 witness: the tag list of the second image held another tag only; the
\* image was in the snapshot and is gone from the file, while both actions
\* of the updated first image were dispatched
WitnessMissingTagOtherNotified ==
    \E c \in Slots :
        /\ Cycle(c).pc = "done"
        /\ Len(Cycle(c).results) = 2
        /\ TagAbsent(c, 2) /\ PriorEntry(c, 2)
        /\ Cycle(c).results[2].response.tags # <<>>
        /\ Cycle(c).results[1].updated
        /\ MadeCalls(c) = <<<<1, 1>>, <<1, 2>>>>
        /\ Keys(Persisted) = {ServiceKey(1)}

\* every cycle started so far has returned without an error
AllReturned == \A c \in Slots : Cycle(c).pc \in {"idle", "done"}

MostRecentlyStarted == startOrder[Len(startOrder)]

\* C7: once every cycle has returned, a file that holds a map holds the one
\* computed by the most recently started cycle: no cycle started earlier
\* has written over it
LatestCycleMapPersisted ==
    (AllReturned /\ startOrder # <<>> /\ file.exists /\ JsonValid(file.data)) =>
        JsonParse(file.data) = Cycle(MostRecentlyStarted).newCache

\* C8: the content of the file is one complete map (the initial content,
\* the empty map, or the map of one cycle), here at the moments when every
\* cycle has returned, so that no write is under way
StoreCompleteWhenAllReturned ==
    AllReturned => file \in InitFiles(config.notifyServices)

\* C9: no executeAction throws, so a cycle that has begun to dispatch ends
\* with every expected call made
HandlerFailureNeverPropagates ==
    \A c \in Slots :
        /\ \A n \in 1..Len(Cycle(c).calls) : ~Cycle(c).calls[n].run.threw
        /\ (Cycle(c).pc \in {"done", "failed"} /\ Cycle(c).calls # <<>>) =>
                MadeCalls(c) = ExpectedCalls(config.notifyServices, Cycle(c).results, 1)

CalledAction(c, n) ==
    config.notifyServices[Cycle(c).calls[n].job].actions[Cycle(c).calls[n].action]

\* C10: an executeAction for a kind without a registered handler calls no
\* handler, makes no external call and does not throw; the loop goes on
\* with the next action of the batch, or returns when it was the last
UnknownKindSkipped ==
    \A c \in Slots : \A n \in 1..Len(Cycle(c).calls) :
        CalledAction(c, n).type \notin Handlers =>
            LET expected == ExpectedCalls(config.notifyServices, Cycle(c).results, 1)
            IN  /\ Cycle(c).calls[n].run.handler = ""
                /\ Cycle(c).calls[n].run.io = <<>>
                /\ ~Cycle(c).calls[n].run.threw
                /\ n = Len(Cycle(c).calls) =>
                    /\ Cycle(c).pc # "failed"
                    /\ Cycle(c).pc = "done" <=> n = Len(expected)
                    /\ Cycle(c).pc = "notify" =>
                        expected[n + 1] =
                            <<Cycle(c).updatedRepos[Cycle(c).ri], Cycle(c).ai>>

\* C10 witness: the call after one for an unknown kind reached a handler
WitnessDispatchGoesOnAfterUnknown ==
    \E c \in Slots : \E n \in 1..Len(Cycle(c).calls) :
        /\ CalledAction(c, n).type \notin Handlers
        /\ n < Len(Cycle(c).calls)
        /\ Cycle(c).calls[n + 1].run.handler # ""
        /\ Cycle(c).calls[n + 1].run.io # <<>>

\* C11: a cycle sends one login request exactly when both credentials are
\* configured, and no image is fetched while the request is pending; a
\* failed login does not reject the cycle, whose checks are then all called
\* without a token; a successful one gives its token to every check
AuthenticatesOnceDegradesOnFailure ==
    \A c \in Slots :
        Cycle(c).pc # "idle" =>
            /\ Cycle(c).login = "none" <=>
                    (config.dockerHubUsername = "" \/ config.dockerHubPassword = "")
            /\ Cycle(c).login = "pending" <=> Cycle(c).pc = "auth"
            /\ Cycle(c).login \in {"none", "pending", "ok", "failed"}
            /\ Cycle(c).login = "pending" =>
                    Cycle(c).tokens = <<>> /\ Cycle(c).results = <<>>
            /\ \A i \in 1..Len(Cycle(c).tokens) :
                    Cycle(c).tokens[i] = IF Cycle(c).login = "ok" THEN "jwt" ELSE ""
            /\ Cycle(c).error # "getToken"
            /\ (Cycle(c).login = "failed" /\ Cycle(c).pc = "failed") =>
                    Cycle(c).error \in {"writeFile", "executeAction"}

\* C11 witness: the login of a cycle failed, and the cycle has checked both
\* images without a token, written the state and notified
WitnessLoginFailedCycleCompleted ==
    \E c \in Slots :
        /\ Cycle(c).login = "failed"
        /\ Cycle(c).pc = "done"
        /\ Len(Cycle(c).tokens) = NumServices
        /\ \A i \in 1..NumServices :
                Cycle(c).tokens[i] = "" /\ Cycle(c).results[i].status = "ok"
        /\ Cycle(c).calls # <<>>

\* C12: when a cycle started by the timer has been rejected, the process
\* has not exited and the timer is still installed: as soon as no cycle is
\* in flight the next tick starts a new cycle
TimerCycleErrorSwallowed ==
    \A c \in Slots :
        (Cycle(c).pc = "failed" /\ Cycle(c).origin = "timer") =>
            /\ phase = "scheduled"
            /\ exitCode = 0
            /\ (\A d \in Slots : ~InFlight(d)) => ENABLED TickIdle

\* C12 witness: a cycle started by the timer was rejected by a throwing
\* executeAction after it had written the state
WitnessTimerCycleRejected ==
    \E c \in Slots :
        /\ Cycle(c).pc = "failed"
        /\ Cycle(c).origin = "timer"
        /\ Cycle(c).error = "executeAction"
        /\ Cycle(c).saved

\* C13: getCache is never rejected because of what the file holds, only by
\* a writeFile that fails.  When it has returned, its result is the empty
\* map and the file holds the empty map if there was no file; its result
\* is the empty map if the content is no JSON or could not be read; else
\* its result is the parsed content
LoadNeverFailsOnContent ==
    \A c \in Slots :
        /\ Cycle(c).pc = "failed" => Cycle(c).error = "writeFile"
        /\ Cycle(c).pc = "fetch" =>
            /\ file.exists
            /\ Cycle(c).load \in {"created", "corrupt", "unreadable", "parsed"}
            /\ Cycle(c).load = "created" =>
                    /\ Cycle(c).currentCache = <<>>
                    /\ file.data = JsonStringify(<<>>)
            /\ Cycle(c).load \in {"corrupt", "unreadable"} =>
                    Cycle(c).currentCache = <<>>
            /\ Cycle(c).load = "parsed" =>
                    /\ JsonValid(file.data)
                    /\ Cycle(c).currentCache = JsonParse(file.data)
            /\ ~JsonValid(file.data) => Cycle(c).load \in {"corrupt", "unreadable"}

\* C13 witness: getCache has returned the empty map from a file that holds
\* no JSON, and the file is as it was
WitnessCorruptContentLoadedEmpty ==
    \E c \in Slots :
        /\ Cycle(c).pc = "fetch"
        /\ Cycle(c).load = "corrupt"
        /\ Cycle(c).currentCache = <<>>
        /\ file.exists
        /\ Len(file.data) > 0
        /\ ~JsonValid(file.data)

\* C14: when writeCache(m) has completed the file holds the text of m and
\* nothing else, and the getCache that follows, unless the file cannot be
\* read, returns m
SaveThenLoadReturnsSaved ==
    \A c \in Slots :
        /\ (Cycle(c).saved /\ Cycle(c).pc \in {"done", "load", "fetch"}) =>
                file = [exists |-> TRUE, data |-> JsonStringify(Cycle(c).newCache)]
        /\ (Cycle(c).saved /\ Cycle(c).pc = "fetch"
                /\ Cycle(c).load # "unreadable") =>
                /\ Cycle(c).load = "parsed"
                /\ Cycle(c).currentCache = Cycle(c).newCache

\* C14 witness: a map of one entry was saved and then loaded, and the entry
\* of the image that is no longer tracked is not in it
WitnessSavedMapLoaded ==
    \E c \in Slots :
        /\ Cycle(c).saved
        /\ Cycle(c).pc = "fetch"
        /\ Cycle(c).load = "parsed"
        /\ Len(Cycle(c).newCache) = 1
        /\ Cycle(c).currentCache = Cycle(c).newCache
        /\ ~HasKey(Cycle(c).currentCache, getCacheKey(Gone))

\* the positions <<service, action>> of the configured actions, services
\* in configured order and the actions of each in declared order
RECURSIVE ActionPositions(_, _, _)
ActionPositions(services, i, k) ==
    IF i > Len(services) THEN <<>>
    ELSE IF k > Len(services[i].actions) THEN ActionPositions(services, i + 1, 1)
    ELSE <<(<<i, k>>)>> \o ActionPositions(services, i, k + 1)

\* the action at a position has a registered handler that accepts it: its
\* kind is mailHook or webHook and its instance has an entry in the map of
\* that kind
Resolves(cfg, pos) ==
    LET action == cfg.notifyServices[pos[1]].actions[pos[2]]
    IN  \/ action.type = "mailHook" /\ action.instance \in cfg.smtpServer
        \/ action.type = "webHook" /\ action.instance \in cfg.webHooks

\* C15: validateAllActions returns true exactly when every configured
\* action resolves; it then has looked at every action, and else at the
\* actions up to the first one that does not resolve and at none after it
ValidateAllTrueIffAllResolve ==
    validation.done =>
        LET pos == ActionPositions(config.notifyServices, 1, 1)
            bad == {n \in 1..Len(pos) : ~Resolves(config, pos[n])}
            first == CHOOSE n \in bad : \A b \in bad : n <= b
        IN  /\ validation.result <=> bad = {}
            /\ validation.examined =
                    IF bad = {} THEN pos ELSE SubSeq(pos, 1, first)

\* C15 witness: validateAllActions returned false at an action that is
\* neither the first nor the last of the configuration
WitnessValidationStoppedEarly ==
    /\ validation.done
    /\ ~validation.result
    /\ Len(validation.examined) > 1
    /\ Len(validation.examined) < Len(ActionPositions(config.notifyServices, 1, 1))
    /\ exitCode = 3

\* the pages it takes to hold count tags at 100 a page, one at least
PagesNeeded(count) ==
    IF count = 0 THEN 1
    ELSE CHOOSE n \in 1..(MaxPages + 1) : 100 * (n - 1) < count /\ count <= 100 * n

\* the results of pages 1..n, one page after the other
RECURSIVE PagesInOrder(_, _)
PagesInOrder(answers, n) ==
    IF n = 0 THEN <<>>
    ELSE PagesInOrder(answers, n - 1) \o answers[n].results

FirstPageDisclosed ==
    /\ api.call = "getTags"
    /\ api.answers[1] # NoAnswer
    /\ api.answers[1].error = ""

\* C16: until the first page has answered getTags has made one request;
\* from then on it has made max(1, ceil(count / 100)) requests in all, for
\* pages 1, 2, ... (2 for count = 150, 1 for count = 5 and count = 0), and
\* what it returns is the results of all these pages put together
GetTagsRequestsCeilOfCount ==
    api.call = "getTags" =>
        /\ ~FirstPageDisclosed => api.requests = <<1>>
        /\ FirstPageDisclosed =>
            LET count == api.answers[1].count
            IN  /\ api.requests = [p \in 1..PagesNeeded(count) |-> p]
                /\ count = 150 => Len(api.requests) = 2
                /\ count \in {0, 5} => Len(api.requests) = 1
                /\ api.pc = "resolved" =>
                    /\ Len(api.answers) = Len(api.requests)
                    /\ api.outcome.tags = PagesInOrder(api.answers, Len(api.requests))

\* C16 witness: the first page disclosed 150 tags; two requests were made
\* and the four tags of the two pages were returned
WitnessTwoPagesFor150 ==
    /\ FirstPageDisclosed
    /\ api.answers[1].count = 150
    /\ api.pc = "resolved"
    /\ api.requests = <<1, 2>>
    /\ Len(api.outcome.tags) = 4

\* what a search for the tag in a list gives: the index of the first tag of
\* that name, 0 when there is none
FirstNamed(tags, name) ==
    IF \A i \in 1..Len(tags) : tags[i].name # name THEN 0
    ELSE CHOOSE i \in 1..Len(tags) :
            tags[i].name = name /\ \A j \in 1..(i - 1) : tags[j].name # name

\* C17: as soon as more than one page is needed, and before any later page
\* has answered, every page 2..N has been requested; the list returned is
\* the results of page 1, page 2, ..., page N in this order whatever the
\* order of the answers; and the tag is searched once, in that list
TagPagesTogetherInPageOrder ==
    api.call = "getTags" =>
        LET tag == config.notifyServices[api.job].image.tag
            whole == PagesInOrder(api.answers, Len(api.answers))
        IN  /\ api.pc = "pages" =>
                /\ Len(api.answers) >= 2
                /\ api.requests = [p \in 1..Len(api.answers) |-> p]
                /\ \A k \in 1..Len(api.arrivals) :
                        api.answers[api.arrivals[k]] # NoAnswer
            /\ api.pc \in {"first", "pages"} => api.result = Pending
            /\ api.pc = "resolved" =>
                /\ api.outcome.tags = whole
                /\ IF FirstNamed(whole, tag) = 0
                   THEN api.result.status = "null" /\ api.result.log = "Tag not found"
                   ELSE /\ api.result.status = "ok"
                        /\ api.result.lastUpdated =
                                whole[FirstNamed(whole, tag)].last_updated

\* C17 witness: page 3 answered before page 2, both hold the tag, and the
\* timestamp taken is that of page 2
WitnessLaterPageAnsweredFirst ==
    /\ api.call = "getTags"
    /\ api.pc = "resolved"
    /\ api.arrivals = <<3, 2>>
    /\ FirstNamed(api.answers[1].results, "latest") = 0
    /\ FirstNamed(api.answers[2].results, "latest") = 2
    /\ FirstNamed(api.answers[3].results, "latest") = 1
    /\ api.result.status = "ok"
    /\ api.result.lastUpdated = IsoString(MaxInstant)

\* C18: when a page request of getTags has failed, the first or a later
\* one, getTags is rejected and returns no tag, the check of the image
\* returns null, and the image has no entry in the map of the cycle and no
\* notification, whatever the other pages hold
PageFailureFailsTagFetch ==
    (api.call = "getTags"
        /\ \E p \in 1..Len(api.answers) : api.answers[p].error \in GotErrors) =>
        /\ api.pc = "rejected"
        /\ api.outcome.kind = "reject"
        /\ api.outcome.tags = <<>>
        /\ api.result.status = "null"
        /\ api.result.log = "Failed to check repository"
        /\ BuildCache(<<config.notifyServices[api.job]>>, <<api.result>>, 1, <<>>) = <<>>
        /\ BuildUpdated(<<api.result>>, 1) = <<>>

\* C18 witness: the first page held the tag, a later page failed, and the
\* check returned null
WitnessTagOnGoodPageLost ==
    /\ api.call = "getTags"
    /\ api.pc = "rejected"
    /\ FirstNamed(api.answers[1].results, "latest") > 0
    /\ Len(api.answers) >= 2
    /\ api.answers[2].error = "RequestError"
    /\ api.result.status = "null"

\* the outcome of getRepository says that the repository was not found:
\* the error of a 404 answer, or a value that is no RepositoryInfo
SignalsNotFound(outcome) ==
    \/ outcome.kind = "reject" /\ outcome.error = "HTTPError 404"
    \/ outcome.kind = "resolve" /\ ~outcome.found

\* C19: the outcome of getRepository for a repository that does not exist
\* (a 404 answer, or a 2xx answer whose body is null) says so, and the outcome of
\* a transport failure or of a 5xx answer is a rejection that does not
NotFoundDistinctFromFailure ==
    (api.call = "getRepository" /\ api.pc \in {"resolved", "rejected"}) =>
        LET answer == api.answers[1]
        IN  /\ (answer.error = "HTTPError 404" \/ (answer.error = "" /\ ~answer.found)) =>
                    SignalsNotFound(api.outcome)
            /\ answer.error \in {"HTTPError 500", "RequestError"} =>
                    /\ api.outcome.kind = "reject"
                    /\ ~SignalsNotFound(api.outcome)

\* C19 witness: getRepository was rejected with the error of a 404 answer
WitnessNotFoundRejected ==
    /\ api.call = "getRepository"
    /\ api.pc = "rejected"
    /\ api.answers[1].error = "HTTPError 404"
    /\ api.outcome.error = "HTTPError 404"
    /\ api.result.status = "null"

\* C20: for every SMTP instance name the transports created so far are at
\* most one more than the clearTransporterCache calls: without a clear, one
\* at most, over all the executes of all cycles.  A name has a transport
\* kept exactly when one was created for it since the last clear, and an
\* execute creates one at most
OneTransportPerInstance ==
    \A i \in DOMAIN transports.created :
        /\ transports.created[i] <= transports.clears + 1
        /\ i \in transporterCache => transports.created[i] >= 1
        /\ transports.clears = 0 =>
                (i \in transporterCache <=> transports.created[i] = 1)
        /\ \A c \in Slots : \A n \in 1..Len(Cycle(c).calls) :
                Cardinality({k \in 1..Len(Cycle(c).calls[n].run.io) :
                                Cycle(c).calls[n].run.io[k] = "createTransport"}) <= 1

\* C20 witness: a cycle started by the timer has sent its mails through the
\* transports the start-up cycle created, one per instance
WitnessTransportReusedAcrossCycles ==
    \E c \in Slots :
        /\ Cycle(c).origin = "timer"
        /\ Cycle(c).pc = "done"
        /\ Len(Cycle(c).calls) = 3
        /\ \A n \in 1..3 : Cycle(c).calls[n].run.io = <<"verify", "sendMail">>
        /\ transports.clears = 0
        /\ \A i \in OwnKeys(config, "smtpServer") : transports.created[i] = 1

MailCalls ==
    {call \in UNION {{<<c, n>> : n \in 1..Len(Cycle(c).calls)} : c \in Slots} :
        Cycle(call[1]).calls[call[2]].run.handler = "mailHook"}

Position(io, what) ==
    IF \E k \in 1..Len(io) : io[k] = what
    THEN CHOOSE k \in 1..Len(io) : io[k] = what
    ELSE 0

\* C21: in every mail execute a send comes after a verification of the
\* same execute, and an execute whose verification failed has not sent
VerifyBeforeSend ==
    \A call \in MailCalls :
        LET run == Cycle(call[1]).calls[call[2]].run
        IN  /\ Position(run.io, "sendMail") > 0 =>
                    /\ Position(run.io, "verify") > 0
                    /\ Position(run.io, "verify") < Position(run.io, "sendMail")
            /\ run.failed = "verify" => Position(run.io, "sendMail") = 0

\* C21 witness: of two mail executes of one cycle the first one verified
\* and sent, and the verification of the second one failed
WitnessVerifyFailedNothingSent ==
    \E c \in Slots :
        /\ <<c, 1>> \in MailCalls /\ <<c, 2>> \in MailCalls
        /\ Cycle(c).calls[1].run.io = <<"createTransport", "verify", "sendMail">>
        /\ Cycle(c).calls[1].run.failed = ""
        /\ Cycle(c).calls[2].run.failed = "verify"
        /\ Cycle(c).calls[2].run.log = "Failed to send notification mail"

RECURSIVE ReplaceAll(_, _, _)
ReplaceAll(str, pattern, replacement) ==
    IF str = <<>> THEN <<>>
    ELSE (IF Head(str) = pattern THEN replacement ELSE <<Head(str)>>)
            \o ReplaceAll(Tail(str), pattern, replacement)

Substituted(value, message) ==
    IF value.type = "string"
    THEN JsString(ReplaceAll(value.str, Placeholder, message))
    ELSE value

\* C22: replaceMessagePlaceholders returns a null or absent body as it is;
\* for a string body the string with the message in the place of $msg;
\* for an array or object body the same elements or keys in the same
\* order, every string value with the message in the place of $msg and
\* every other value as it was
PlaceholdersSubstituted ==
    webhook.pc = "returned" =>
        LET body == webhook.httpBody
            out == webhook.body
            message == webhook.message
        IN  /\ out.type = body.type
            /\ body.type \in {"null", "undefined"} => out = body
            /\ body.type = "string" =>
                    out.str = ReplaceAll(body.str, Placeholder, message)
            /\ body.type = "array" =>
                    /\ Len(out.items) = Len(body.items)
                    /\ \A i \in 1..Len(body.items) :
                            out.items[i] = Substituted(body.items[i], message)
            /\ body.type = "object" =>
                    /\ Len(out.items) = Len(body.items)
                    /\ \A i \in 1..Len(body.items) :
                            /\ out.items[i].key = body.items[i].key
                            /\ out.items[i].value = Substituted(body.items[i].value, message)

\* the instance has an entry of its own in the map of the Config, which is
\* defined
IsKey(cfg, map, instance) == map \in DOMAIN cfg /\ instance \in cfg[map]

\* C23: mailAction.validateInstance(action, config) is true exactly when
\* the action is a mailHook and its instance is a key of config.smtpServer,
\* webhookAction.validateInstance exactly when the action is a webHook and
\* its instance is a key of config.webHooks; both are false when the map is
\* absent.  The validation of the configuration passes exactly when every
\* action names a key of the map of its kind
ValidateInstanceIffKeyOfMap ==
    validation.done =>
        /\ \A action \in InstanceActions :
                /\ mailValidateInstance(action, config) <=>
                        /\ action.type = "mailHook"
                        /\ IsKey(config, "smtpServer", action.instance)
                /\ webhookValidateInstance(action, config) <=>
                        /\ action.type = "webHook"
                        /\ IsKey(config, "webHooks", action.instance)
                /\ "smtpServer" \notin DOMAIN config => ~mailValidateInstance(action, config)
                /\ "webHooks" \notin DOMAIN config => ~webhookValidateInstance(action, config)
        /\ validation.result <=>
                \A k \in 1..Len(config.notifyServices[1].actions) :
                    LET action == config.notifyServices[1].actions[k]
                    IN  IsKey(config, IF action.type = "mailHook" THEN "smtpServer"
                                      ELSE "webHooks", action.instance)

\* C24: an execute for an instance that is no key of the map of its kind,
\* or whose map is absent, reaches nothing outside the process (no
\* transport created, no verification, no mail, no request) and does not
\* throw
UndefinedInstanceNoIO ==
    \A c \in Slots : \A n \in 1..Len(Cycle(c).calls) :
        LET call == Cycle(c).calls[n]
            action == config.notifyServices[call.job].actions[call.action]
            map == IF action.type = "mailHook" THEN "smtpServer" ELSE "webHooks"
        IN  ~IsKey(config, map, action.instance) =>
                /\ call.run.io = <<>>
                /\ ~call.run.threw

\* the setup error of a start of the process: no configuration file, a
\* file that is no JSON, a file the schema rejects, or a configuration
\* with an action that validateAllActions rejects ("" for none of them)
SetupError(cf, cfg) ==
    LET text == IF cf.jsonc # "absent" THEN cf.jsonc ELSE cf.json
    IN  IF text = "absent" THEN "missing"
        ELSE IF text \in {"truncated", "garbage"} THEN "unparsable"
        ELSE IF text = "schema-invalid" THEN "schema"
        ELSE IF ~validateAllActions(cfg).result THEN "actions"
        ELSE ""

\* the status the process exits with before its first cycle (0 for none)
SetupExit(cf, cfg) ==
    IF loadConfig(cf, cfg).exit # 0 THEN loadConfig(cf, cfg).exit
    ELSE IF ~validateAllActions(cfg).result THEN 3
    ELSE 0

\* C25: a start of the process with a setup error leaves "load" and "init"
\* only by exiting, with no cycle started and nothing done to the State
\* Store; the status it exits with is not the status of a start with
\* another setup error
SetupErrorsExitDistinctly ==
    LET error == SetupError(configFile, config)
    IN  error # "" =>
            /\ phase \in {"load", "init", "exited"}
            /\ startOrder = <<>>
            /\ \A c \in Slots : Cycle(c).pc = "idle"
            /\ phase = "exited" =>
                    /\ exitCode # 0
                    /\ \A cf \in ConfigFiles, cfg \in SetupConfigs :
                            SetupError(cf, cfg) \notin {"", error} =>
                                SetupExit(cf, cfg) # exitCode

Started == {c \in Slots : Cycle(c).pc # "idle"}

\* before the timer: no cycle until main() starts one, then that one alone
BeforeTheTimer ==
    /\ phase = "init" => startOrder = <<>> /\ Started = {}
    /\ phase = "startup" =>
            /\ startOrder = <<1>>
            /\ Started = {1}
            /\ Cycle(1).origin = "main"

\* C26: until main() has started its cycle no cycle exists, and until the
\* timer is installed that cycle is the only one; the timer is installed in
\* a step that finds the start-up cycle completed; every step that starts a
\* cycle afterwards is a tick, starts one cycle of origin "timer" in a slot
\* where none is running, and leaves every other cycle, running or not, as
\* it was
OneCycleAtStartOnePerTick ==
    /\ BeforeTheTimer
    /\ [][/\ BeforeTheTimer'
          /\ phase # "scheduled" /\ phase' = "scheduled" => Cycle(1).pc = "done"
          /\ startOrder' # startOrder =>
                \E c \in Slots :
                    /\ startOrder' = Append(SelectSeq(startOrder, LAMBDA s : s # c), c)
                    /\ ~InFlight(c)
                    /\ cycles'[c].pc \in {"auth", "load"}
                    /\ cycles'[c].origin = IF phase = "scheduled" THEN "timer" ELSE "main"
                    /\ phase = "scheduled" \/ (phase = "init" /\ c = 1)
                    /\ \A d \in Slots \ {c} : cycles'[d] = cycles[d]
          /\ \A c \in Slots :
                InFlight(c) => cycles'[c].origin = cycles[c].origin /\ cycles'[c].pc # "idle"
         ]_vars

\* C26 witness: a tick has started a cycle while the cycle of an earlier
\* tick was still running, after the start-up cycle completed
WitnessTickDuringRunningCycle ==
    /\ phase = "scheduled"
    /\ Len(startOrder) = 2
    /\ \A c \in Slots : InFlight(c) /\ Cycle(c).origin = "timer"
    /\ Cycle(startOrder[1]).pc = "fetch"
    /\ Cycle(startOrder[2]).pc \in {"auth", "load"}

HasSlash(imageString) == \E k \in 1..Len(imageString) : imageString[k] = "/"

\* a tag is given when it is neither undefined nor the empty string
TagGiven(image) == image.tag # <<>> /\ image.tag # <<"">>

SameImage(p, q) ==
    /\ p.user = q.user
    /\ p.name = q.name
    /\ IF TagGiven(p) THEN q.tag = p.tag ELSE ~TagGiven(q)

\* C27: the parsed image of a string without a slash has the namespace
\* "library"; its key is namespace/repository when no tag is given and
\* namespace/repository:tag otherwise; every image string whose parsed
\* image has the same key has the same namespace, repository and tag
KeyIdentifiesParsedImage ==
    parsed.done =>
        LET image == parsed.image
            key == getCacheKey(AsImage(image))
        IN  /\ ~HasSlash(parsed.originalImage) => image.user = "library"
            /\ key = IF TagGiven(image)
                      THEN image.user \o "/" \o image.name \o ":" \o image.tag[1]
                      ELSE image.user \o "/" \o image.name
            /\ \A other \in ImageStrings :
                    getCacheKey(AsImage(parseImageString(other))) = key =>
                        SameImage(parseImageString(other), image)

\* C27 witness: a string without a slash and with a tag was parsed
WitnessOfficialImageWithTag ==
    /\ parsed.done
    /\ parsed.originalImage = <<"a", "a", ":", "a">>
    /\ parsed.image = ParsedImage("library", "aa", <<"a">>)
    /\ getCacheKey(AsImage(parsed.image)) = "library/aa:a"

Loading(c) == Cycle(c).pc \in {"load", "create_open", "create_write"}

\* the state is loaded: getCache has returned
StateLoaded(c) == Cycle(c).load \in {"parsed", "corrupt", "unreadable", "created"}

\* C28: in every cycle, the login request (when there is one) has settled
\* before getCache is called and before any checkRepository is called, and
\* getCache has returned before any checkRepository is called; the write of
\* the state starts only when every checkRepository has settled; the first
\* executeAction is called only when the write of the state has completed
CycleStepsInOrder ==
    \A c \in Slots :
        /\ HasCredentials(config) /\ Cycle(c).pc # "idle" => Cycle(c).login # "none"
        /\ Loading(c) \/ Cycle(c).reads > 0 => Cycle(c).login # "pending"
        /\ Cycle(c).results # <<>> => Cycle(c).login # "pending" /\ StateLoaded(c)
        /\ Cycle(c).pc \in {"persist_open", "persist_write"} \/ Cycle(c).saved =>
                /\ Cycle(c).results # <<>> \/ NumServices = 0
                /\ \A i \in Checks(c) : Settled(c, i)
        /\ Cycle(c).pc = "notify" \/ Cycle(c).calls # <<>> => Cycle(c).saved

\* C28 witness: a cycle that logged in, loaded the state, fetched both
\* images, wrote the state and has dispatched
WitnessAllStepsTaken ==
    \E c \in Slots :
        /\ Cycle(c).login = "ok"
        /\ Cycle(c).load = "parsed"
        /\ \A i \in Checks(c) : Cycle(c).results[i].status = "ok"
        /\ Len(Cycle(c).results) = 2
        /\ Cycle(c).saved
        /\ Cycle(c).calls # <<>>
        /\ Cycle(c).pc = "done"

\* the writeFile calls that have completed in a cycle that is not writing
\* hold the text of a map: the last of them the map the cycle built
LastWriteStoresNewCache(c) ==
    file.exists /\ file.data = JsonStringify(Cycle(c).newCache)

\* C29 as stated: a cycle that completes has read the State Store once and
\* written it once
ReadOnceWrittenOnce ==
    \A c \in Slots :
        Cycle(c).pc = "done" => Cycle(c).reads = 1 /\ Cycle(c).writes = 1

\* C29, amended: a cycle that completes has read the State Store once and
\* written it once with the map it built (the empty map when no image was
\* fetched), whether or not an update was detected; a cycle that found no
\* State Store has written it once more before, to create it empty
ReadOnceWrittenOnceAfterCreation ==
    \A c \in Slots :
        Cycle(c).pc = "done" =>
            /\ Cycle(c).reads = 1
            /\ Cycle(c).writes = IF Cycle(c).load = "created" THEN 2 ELSE 1
            /\ Cycle(c).saved
            /\ LastWriteStoresNewCache(c)
            /\ (\A i \in Checks(c) : Cycle(c).results[i].status # "ok") =>
                    Cycle(c).newCache = <<>>

\* C29 witness: a cycle that fetched no image has completed after one read
\* and one write, and the State Store, which held an entry, holds the
\* empty map
WitnessEmptyMapWritten ==
    \E c \in Slots :
        /\ Cycle(c).pc = "done"
        /\ Cycle(c).currentCache # <<>>
        /\ \A i \in Checks(c) : Cycle(c).results[i].status # "ok"
        /\ Cycle(c).reads = 1 /\ Cycle(c).writes = 1
        /\ Cycle(c).updatedRepos = <<>>
        /\ file.data = JsonStringify(<<>>)


\* cycle c was started right after cycle p
Consecutive(p, c) ==
    \E k \in 1..(Len(startOrder) - 1) : startOrder[k] = p /\ startOrder[k + 1] = c

\* job i was fetched successfully by cycle p and by cycle c, with the same
\* registry timestamp
SameTimestampFetched(p, c, i) ==
    /\ i \in Checks(p) /\ i \in Checks(c)
    /\ Cycle(p).results[i].status = "ok" /\ Cycle(c).results[i].status = "ok"
    /\ Fetched(p, i) = Fetched(c, i)

NothingDispatched(c, i) ==
    /\ ~Cycle(c).results[i].updated
    /\ \A n \in 1..Len(Cycle(c).updatedRepos) : Cycle(c).updatedRepos[n] # i
    /\ \A n \in 1..Len(Cycle(c).calls) : Cycle(c).calls[n].job # i

Dispatched(c, i, a) ==
    \E n \in 1..Len(Cycle(c).calls) :
        Cycle(c).calls[n].job = i /\ Cycle(c).calls[n].action = a

\* C31: one change of an image's registry timestamp leads to at most one
\* dispatch of each of the image's actions in total, also when two cycles
\* overlap and both load the state before either has written it
OneDispatchPerChange ==
    \A c \in Slots, d \in Slots : \A i \in 1..NumServices :
        \A a \in 1..Len(config.notifyServices[i].actions) :
            (/\ c # d
             /\ i \in Checks(c) /\ i \in Checks(d)
             /\ Cycle(c).results[i].status = "ok"
             /\ Cycle(d).results[i].status = "ok"
             /\ Fetched(c, i) = Fetched(d, i)
             /\ Cycle(c).currentCache = Cycle(d).currentCache) =>
                ~(Dispatched(c, i, a) /\ Dispatched(d, i, a))


\* the fetch of job i failed in cycle p and succeeded in cycle c
FailedThenFetched(p, c, i) ==
    /\ i \in Checks(p) /\ i \in Checks(c)
    /\ Cycle(p).results[i].status = "null"
    /\ Cycle(c).results[i].status = "ok"

\* C32 as stated: an image whose fetch fails in one cycle and succeeds in
\* the next, non-overlapping cycle is not dispatched by the later cycle,
\* whatever it fetches and whatever was persisted before the failure
FetchedAfterFailureNeverDispatched ==
    \A p \in Slots, c \in Slots : \A i \in 1..NumServices :
        (Consecutive(p, c) /\ FailedThenFetched(p, c, i)) =>
            NothingDispatched(c, i)

\* C32, amended: an image whose fetch fails in a cycle that goes on to
\* write its state, and succeeds in the next, non-overlapping cycle, has no
\* entry in the snapshot of the later cycle and is not dispatched by it
FetchedAfterWrittenFailureNeverDispatched ==
    \A p \in Slots, c \in Slots : \A i \in 1..NumServices :
        (Consecutive(p, c) /\ FailedThenFetched(p, c, i) /\ Cycle(p).saved) =>
            /\ ~PriorEntry(c, i)
            /\ NothingDispatched(c, i)

\* a cycle has returned without a dispatch after it fetched a later
\* timestamp than the one persisted before the fetch of the image failed
WitnessFirstSeenAgainAfterFailure ==
    \E p \in Slots, c \in Slots : \E i \in 1..NumServices :
        /\ Consecutive(p, c)
        /\ FailedThenFetched(p, c, i)
        /\ Cycle(p).saved
        /\ PriorEntry(p, i)
        /\ \E k \in 1..Len(Cycle(p).currentCache) :
                /\ Cycle(p).currentCache[k].key = ServiceKey(i)
                /\ StrictlyEarlier(Cycle(p).currentCache[k].entry.lastUpdated,
                                   Fetched(c, i))
        /\ Cycle(c).pc = "done"
        /\ Cycle(c).calls = <<>>


\* the file holds one entry under the key of job i, with timestamp t
PersistedAt(i, t) ==
    /\ \E k \in 1..Len(Persisted) : Persisted[k].key = ServiceKey(i)
    /\ \A k \in 1..Len(Persisted) :
            Persisted[k].key = ServiceKey(i) => Persisted[k].entry.lastUpdated = t

\* the snapshot of cycle c holds, for job i, a timestamp that is not
\* strictly earlier than t: equal, later, or not comparable
NotEarlierStored(c, i, t) ==
    \E k \in 1..Len(Cycle(c).currentCache) :
        /\ Cycle(c).currentCache[k].key = ServiceKey(i)
        /\ ~StrictlyEarlier(Cycle(c).currentCache[k].entry.lastUpdated, t)

\* C33: after a cycle has written its state, the persisted timestamp of
\* every image it fetched successfully is the timestamp it fetched, also
\* when that is earlier than the stored one or not comparable with it, and
\* then without any notification
PersistedIsLastFetched ==
    \A c \in Slots : \A i \in Checks(c) :
        (Wrote(c) /\ Cycle(c).results[i].status = "ok") =>
            /\ PersistedAt(i, Fetched(c, i))
            /\ NotEarlierStored(c, i, Fetched(c, i)) => NothingDispatched(c, i)

\* a cycle has returned after it replaced the stored timestamp of an image
\* by an earlier one, without a dispatch
WitnessTimestampMovedBack ==
    \E c \in Slots : \E i \in Checks(c) :
        /\ Cycle(c).pc = "done"
        /\ Cycle(c).results[i].status = "ok"
        /\ \E k \in 1..Len(Cycle(c).currentCache) :
                /\ Cycle(c).currentCache[k].key = ServiceKey(i)
                /\ StrictlyEarlier(Fetched(c, i),
                                   Cycle(c).currentCache[k].entry.lastUpdated)
        /\ PersistedAt(i, Fetched(c, i))
        /\ Cycle(c).calls = <<>>


\* C34: a cycle whose write of the new state fails dispatches no
\* notification at all, also for the images whose check returned
\* updated = true: the cycle is rejected at the write, and a cycle that has
\* dispatched anything has written its state before
FailedWriteNothingDispatched ==
    \A c \in Slots :
        /\ Cycle(c).error = "writeFile" =>
                Cycle(c).pc = "failed" /\ Cycle(c).calls = <<>>
        /\ Cycle(c).calls # <<>> => Cycle(c).saved

\* the write of a cycle that found an updated image has failed, and the
\* cycle has ended without a dispatch
WitnessUpdateLostOnFailedWrite ==
    \E c \in Slots :
        /\ Cycle(c).error = "writeFile"
        /\ Cycle(c).pc = "failed"
        /\ \E i \in Checks(c) : Cycle(c).results[i].updated
        /\ Cycle(c).updatedRepos # <<>>
        /\ Cycle(c).calls = <<>>


\* C35: an error thrown by the start-up cycle is not swallowed: the process
\* has exited with status 1 and the timer is never installed, no cycle being
\* started after it; the error of a cycle the timer started is caught, the
\* process going on with the timer installed
StartupErrorExitsTimerErrorCaught ==
    /\ [](\A c \in Slots :
            Cycle(c).pc = "failed" =>
                IF Cycle(c).origin = "main"
                THEN /\ phase = "exited" /\ exitCode = 1
                     /\ startOrder = <<c>>
                ELSE phase = "scheduled" /\ exitCode = 0)
    /\ [][phase = "exited" => (phase' = "exited" /\ cycles' = cycles)]_vars

\* the start-up cycle has been rejected and the process has exited with 1
WitnessStartupCycleRejected ==
    \E c \in Slots :
        /\ Cycle(c).origin = "main"
        /\ Cycle(c).pc = "failed"
        /\ Cycle(c).error # ""
        /\ phase = "exited"
        /\ exitCode = 1


\* call n of cycle c is followed by the call of the next action of the same
\* image or, after the last action of the image, by the first action of an
\* image further down the configured notify services
NextInOrder(c, n) ==
    LET this == Cycle(c).calls[n]
        next == Cycle(c).calls[n + 1]
    IN  \/ next.job = this.job /\ next.action = this.action + 1
        \/ /\ this.action = Len(config.notifyServices[this.job].actions)
           /\ next.job > this.job
           /\ next.action = 1

\* C36: within one cycle at most one execute is in flight at any moment; an
\* execute has settled before the next action of the image starts, all
\* actions of an updated image have settled before the first action of the
\* next one starts, and the images are taken in the order of the
\* configured notify services
OneExecuteInFlightInOrder ==
    \A c \in Slots :
        /\ Cycle(c).running \in {0, 1}
        /\ Cycle(c).running = 1 <=> Cycle(c).pc = "execute"
        /\ \A n \in 1..(Len(Cycle(c).calls) - 1) : NextInOrder(c, n)
        /\ \A n \in 1..(Len(Cycle(c).updatedRepos) - 1) :
                Cycle(c).updatedRepos[n] < Cycle(c).updatedRepos[n + 1]
        /\ Cycle(c).pc = "execute" =>
                /\ Len(Cycle(c).calls) > 0 =>
                        LET last == Cycle(c).calls[Len(Cycle(c).calls)]
                        IN  \/ /\ last.job = Cycle(c).updatedRepos[Cycle(c).ri]
                               /\ last.action + 1 = Cycle(c).ai
                            \/ /\ last.job < Cycle(c).updatedRepos[Cycle(c).ri]
                               /\ Cycle(c).ai = 1
                /\ Len(Cycle(c).calls) = 0 => Cycle(c).ri = 1 /\ Cycle(c).ai = 1

\* the first action of the second updated image is in flight, the two
\* actions of the first updated image having settled
WitnessSecondImageAfterFirst ==
    \E c \in Slots :
        /\ Cycle(c).pc = "execute"
        /\ Cycle(c).running = 1
        /\ Cycle(c).updatedRepos = <<1, 2>>
        /\ Cycle(c).ri = 2
        /\ Len(Cycle(c).calls) = 2
        /\ Cycle(c).calls[1].job = 1 /\ Cycle(c).calls[2].job = 1


\* C37: for every configuration ConfigSchema accepts, validateAllActions
\* returns true with the built-in handlers: the schema's check of the
\* instance references and the registry's check agree on every
\* configuration whose actions are all mailHook or webHook, so start-up
\* never fails on the registry check after the schema check passed
SchemaAcceptedRegistryAccepts ==
    /\ SuperRefine(config) <=> validateAllActions(config).result
    /\ validation.done => SuperRefine(config) /\ validation.result
    /\ exitCode # 3

\* a configuration with two actions has passed the schema and the registry
\* check, and another configuration is one both refuse
WitnessAcceptedByBoth ==
    /\ validation.done
    /\ validation.result
    /\ phase = "init"
    /\ Len(validation.examined) = 2
    /\ \E cfg \in InstanceConfigs :
            ~SuperRefine(cfg) /\ ~validateAllActions(cfg).result


\* C38: when every registry request, every operation on the state store
\* and every execute returns or fails, every started cycle finishes,
\* whatever the mix of successes and failures among pages and notifications
EveryCycleFinishes ==
    \A c \in Slots : InFlight(c) ~> ~InFlight(c)

\* a cycle the timer started has written its state and returned after its
\* getTags call was rejected
WitnessFinishedAfterFailedPage ==
    \E c \in Slots :
        /\ Cycle(c).pc = "done"
        /\ Cycle(c).origin = "timer"
        /\ Cycle(c).results[1].status = "null"
        /\ Cycle(c).results[1].response.kind = "throw"
        /\ Cycle(c).saved

====
